---- MODULE Spec2Model ----
(***************************************************************************)
(* Model of the use-stored-state hooks: useKeyStore (one adapter bound to  *)
(* one source/key pair, with the process-wide registry of query-key        *)
(* consumers) and useStoredState (three adapters under one state value,    *)
(* with option validation, hydration precedence and the sync effect).     *)
(*                                                                         *)
(* The host framework is modelled by its lifecycle only: a render runs the *)
(* hook body, a commit is followed by the passive effects of the rendered  *)
(* hook (cleanups of effects whose dependencies changed, then setups in    *)
(* declaration order), a state setter queues an update that the next       *)
(* render applies, and a render that changes no state runs no effects.     *)
(***************************************************************************)
EXTENDS Integers, Sequences, FiniteSets, TLC

(* ---------------------------- bounds ----------------------------------- *)

\* numeric states range over 0..MaxNum
MaxNum == 2

\* the hook instances (activations): two, as many as the statements about
\* activations sharing a key speak of
Ids == {1, 2}

(* ---------------------------- values ----------------------------------- *)

\* JavaScript values, tagged with their typeof; one record shape for all
Num(n) == [t |-> "number", n |-> n, s |-> ""]
Bool(b) == [t |-> "boolean", n |-> IF b THEN 1 ELSE 0, s |-> ""]
Str(s) == [t |-> "string", n |-> 0, s |-> s]
Null == [t |-> "null", n |-> 0, s |-> ""]
\* the number NaN
NaN == [t |-> "number", n |-> 0, s |-> "NaN"]
\* the outcome of a call that threw instead of returning a value
Thrown == [t |-> "thrown", n |-> 0, s |-> "SyntaxError"]
\* a value that is neither boolean, number nor string: the object {a: 1}
Obj == [t |-> "object", n |-> 0, s |-> "{a:1}"]
\* "no update queued" in a hook's update queue
NoUpdate == [t |-> "none", n |-> 0, s |-> ""]

Numbers == {Num(n) : n \in 0..MaxNum}
Booleans == {Bool(TRUE), Bool(FALSE)}
Strings == {Str(""), Str("a")}

\* the values of the State type that defaultValue belongs to
StateValues(defaultValue) ==
  CASE defaultValue.t = "number" -> Numbers
    [] defaultValue.t = "boolean" -> Booleans
    [] defaultValue.t = "string" -> Strings
    [] OTHER -> {defaultValue}

\* an option that was not supplied, and the adapter key derived from it
Undefined == "<undefined>"
NullKey == "<null>"

Digits == <<"0", "1", "2", "3", "4", "5", "6", "7", "8", "9">>

\* a string conversion that capitalises the boolean literals
StringCapitalised(value) ==
  CASE value = NaN -> "NaN"
    [] value.t = "number" -> Digits[value.n + 1]
    [] value.t = "boolean" -> (IF value.n = 1 THEN "True" ELSE "False")
    [] value.t = "string" -> value.s
    [] value.t = "object" -> "[object Object]"
    [] OTHER -> "null"

\* String(value)
String(value) ==
  CASE value = NaN -> "NaN"
    [] value.t = "number" -> Digits[value.n + 1]
    [] value.t = "boolean" -> (IF value.n = 1 THEN "true" ELSE "false")
    [] value.t = "string" -> value.s
    [] value.t = "object" -> "[object Object]"
    [] OTHER -> "null"

\* Number(rawValue) for the raw strings that occur: a single digit, a digit
\* with a leading zero, the empty string (0), and text that is not a numeral
NumberOf(rawValue) ==
  IF \E n \in 0..9 : Digits[n + 1] = rawValue
    THEN Num(CHOOSE n \in 0..9 : Digits[n + 1] = rawValue)
    ELSE IF rawValue = "01" THEN Num(1)
    ELSE IF rawValue = "" THEN Num(0)
    ELSE NaN

\* JSON.parse(rawValue) for the raw strings that occur: a numeral without a
\* leading zero, a boolean literal and null are JSON texts; a numeral with a
\* leading zero, the empty string and other text make it throw a SyntaxError
jsonParse(rawValue) ==
  IF \E n \in 0..9 : Digits[n + 1] = rawValue
    THEN Num(CHOOSE n \in 0..9 : Digits[n + 1] = rawValue)
    ELSE IF rawValue = "true" THEN Bool(TRUE)
    ELSE IF rawValue = "false" THEN Bool(FALSE)
    ELSE IF rawValue = "null" THEN Null
    ELSE Thrown

\* JSON.stringify(value) for numbers, booleans and null
jsonStringify(value) ==
  CASE value.t = "number" /\ value # NaN -> Digits[value.n + 1]
    [] value.t = "boolean" -> (IF value.n = 1 THEN "true" ELSE "false")
    [] OTHER -> "null"

\* parsePrimitiveState without the Number.isNaN check
parsePrimitiveStateKeepsNaN(rawValue, defaultValue) ==
  IF defaultValue.t = "boolean"
    THEN (IF rawValue = "true" THEN Bool(TRUE)
          ELSE IF rawValue = "false" THEN Bool(FALSE)
          ELSE Null)
    ELSE IF defaultValue.t = "number"
      THEN NumberOf(rawValue)
      ELSE IF defaultValue.t = "string"
        THEN Str(rawValue)
        ELSE Null

\* parsePrimitiveState(rawValue, defaultValue)
parsePrimitiveState(rawValue, defaultValue) ==
  IF defaultValue.t = "boolean"
    THEN (IF rawValue = "true" THEN Bool(TRUE)
          ELSE IF rawValue = "false" THEN Bool(FALSE)
          ELSE Null)
    ELSE IF defaultValue.t = "number"
      THEN LET parsedNumber == NumberOf(rawValue)
           IN  IF parsedNumber = NaN THEN Null ELSE parsedNumber
      ELSE IF defaultValue.t = "string"
        THEN Str(rawValue)
        ELSE Null

(* ---------------------------- options ---------------------------------- *)

\* validate predicates a caller can pass
validateFn(name, value) ==
  CASE name = "atLeastOne" -> value.t = "number" /\ value.n >= 1
    [] name = "atMostOne" -> value.t = "number" /\ value.n <= 1
    [] OTHER -> TRUE

\* the runtime kind of every option, as validateUseStoredStateOptions sees it
OptionKinds(options) ==
  [queryKey |-> IF options.queryKey = Undefined THEN "undefined" ELSE "string",
   sessionStorageKey |->
     IF options.sessionStorageKey = Undefined THEN "undefined" ELSE "string",
   localStorageKey |->
     IF options.localStorageKey = Undefined THEN "undefined" ELSE "string",
   validValues |-> IF options.hasValidValues THEN "array" ELSE "undefined",
   validate |-> IF options.validate = Undefined THEN "undefined" ELSE "function",
   parse |-> IF options.parse = Undefined THEN "undefined" ELSE "function",
   serialize |-> IF options.serialize = Undefined THEN "undefined" ELSE "function"]

NoError == "none"
ErrNoKey ==
  "useStoredState requires at least one of queryKey, sessionStorageKey, or localStorageKey"
ErrBothStorageKeys ==
  "useStoredState options must include only one of sessionStorageKey or localStorageKey"
ErrQueryKeyType == "queryKey must be a string"
ErrSessionKeyType == "sessionStorageKey must be a string"
ErrLocalKeyType == "localStorageKey must be a string"
ErrBothValidation == "Provide only one of validValues or validate"
ErrValidValuesType == "validValues must be an array"
ErrValidateType == "validate must be a function"
ErrParseSerialize == "parse and serialize must be provided together"
ErrParseType == "parse must be a function"
ErrSerializeType == "serialize must be a function"
ErrDefaultValue == "defaultValue must satisfy useStoredState validation"
\* the exception of a parse option that threw
ErrParseThrew == "SyntaxError thrown by parse"

\* validateUseStoredStateOptions that checks the types of the keys before it
\* checks that the two storage keys exclude each other
validateOptionsKeyTypesFirst(k) ==
  LET hasQueryKey == k.queryKey # "undefined"
      hasSessionStorageKey == k.sessionStorageKey # "undefined"
      hasLocalStorageKey == k.localStorageKey # "undefined"
  IN  IF ~hasQueryKey /\ ~hasSessionStorageKey /\ ~hasLocalStorageKey
        THEN ErrNoKey
      ELSE IF hasQueryKey /\ k.queryKey # "string"
        THEN ErrQueryKeyType
      ELSE IF hasSessionStorageKey /\ k.sessionStorageKey # "string"
        THEN ErrSessionKeyType
      ELSE IF hasLocalStorageKey /\ k.localStorageKey # "string"
        THEN ErrLocalKeyType
      ELSE IF hasSessionStorageKey /\ hasLocalStorageKey
        THEN ErrBothStorageKeys
      ELSE IF k.validValues # "undefined" /\ k.validate # "undefined"
        THEN ErrBothValidation
      ELSE IF k.validValues # "undefined" /\ k.validValues # "array"
        THEN ErrValidValuesType
      ELSE IF k.validate # "undefined" /\ k.validate # "function"
        THEN ErrValidateType
      ELSE IF (k.parse = "undefined") # (k.serialize = "undefined")
        THEN ErrParseSerialize
      ELSE IF k.parse # "undefined" /\ k.parse # "function"
        THEN ErrParseType
      ELSE IF k.serialize # "undefined" /\ k.serialize # "function"
        THEN ErrSerializeType
      ELSE NoError

\* validateUseStoredStateOptions without the check that the two storage keys
\* exclude each other
validateOptionsWithoutExclusion(k) ==
  LET hasQueryKey == k.queryKey # "undefined"
      hasSessionStorageKey == k.sessionStorageKey # "undefined"
      hasLocalStorageKey == k.localStorageKey # "undefined"
  IN  IF ~hasQueryKey /\ ~hasSessionStorageKey /\ ~hasLocalStorageKey
        THEN ErrNoKey
      ELSE IF hasQueryKey /\ k.queryKey # "string"
        THEN ErrQueryKeyType
      ELSE IF hasSessionStorageKey /\ k.sessionStorageKey # "string"
        THEN ErrSessionKeyType
      ELSE IF hasLocalStorageKey /\ k.localStorageKey # "string"
        THEN ErrLocalKeyType
      ELSE IF k.validValues # "undefined" /\ k.validate # "undefined"
        THEN ErrBothValidation
      ELSE IF k.validValues # "undefined" /\ k.validValues # "array"
        THEN ErrValidValuesType
      ELSE IF k.validate # "undefined" /\ k.validate # "function"
        THEN ErrValidateType
      ELSE IF (k.parse = "undefined") # (k.serialize = "undefined")
        THEN ErrParseSerialize
      ELSE IF k.parse # "undefined" /\ k.parse # "function"
        THEN ErrParseType
      ELSE IF k.serialize # "undefined" /\ k.serialize # "function"
        THEN ErrSerializeType
      ELSE NoError

\* validateUseStoredStateOptions: the error thrown, or NoError
validateUseStoredStateOptions(k) ==
  LET hasQueryKey == k.queryKey # "undefined"
      hasSessionStorageKey == k.sessionStorageKey # "undefined"
      hasLocalStorageKey == k.localStorageKey # "undefined"
  IN  IF ~hasQueryKey /\ ~hasSessionStorageKey /\ ~hasLocalStorageKey
        THEN ErrNoKey
      ELSE IF hasSessionStorageKey /\ hasLocalStorageKey
        THEN ErrBothStorageKeys
      ELSE IF hasQueryKey /\ k.queryKey # "string"
        THEN ErrQueryKeyType
      ELSE IF hasSessionStorageKey /\ k.sessionStorageKey # "string"
        THEN ErrSessionKeyType
      ELSE IF hasLocalStorageKey /\ k.localStorageKey # "string"
        THEN ErrLocalKeyType
      ELSE IF k.validValues # "undefined" /\ k.validate # "undefined"
        THEN ErrBothValidation
      ELSE IF k.validValues # "undefined" /\ k.validValues # "array"
        THEN ErrValidValuesType
      ELSE IF k.validate # "undefined" /\ k.validate # "function"
        THEN ErrValidateType
      ELSE IF (k.parse = "undefined") # (k.serialize = "undefined")
        THEN ErrParseSerialize
      ELSE IF k.parse # "undefined" /\ k.parse # "function"
        THEN ErrParseType
      ELSE IF k.serialize # "undefined" /\ k.serialize # "function"
        THEN ErrSerializeType
      ELSE NoError

\* parseValue of useStoredState: the parse option (JSON.parse is the one the
\* applications pass) or the default codec
parseValue(options, rawValue) ==
  IF options.parse # Undefined
    THEN jsonParse(rawValue)
    ELSE parsePrimitiveState(rawValue, options.defaultValue)

\* serializeValue of useStoredState: the serialize option (JSON.stringify) or
\* String
serializeValue(options, value) ==
  IF options.serialize # Undefined
    THEN jsonStringify(value)
    ELSE String(value)

\* isValid of useStoredState
isValid(options, value) ==
  IF options.hasValidValues
    THEN value \in options.validValues
    ELSE IF options.validate # Undefined
      THEN validateFn(options.validate, value)
      ELSE TRUE

\* neither validValues nor validate was supplied
NoStrategy(options) == ~options.hasValidValues /\ options.validate = Undefined

\* key ?? null
AdapterKey(key) == IF key = Undefined THEN NullKey ELSE key

Opt(q, s, l, d, hv, vv, vf) ==
  [queryKey |-> q, sessionStorageKey |-> s, localStorageKey |-> l,
   defaultValue |-> d, hasValidValues |-> hv, validValues |-> vv, validate |-> vf,
   parse |-> Undefined, serialize |-> Undefined]

\* options with a query key, a default value and nothing else
QueryOnly(defaultValue) ==
  Opt("q", Undefined, Undefined, defaultValue, FALSE, {}, Undefined)

\* the same options with parse: JSON.parse and serialize: JSON.stringify
WithJson(options) ==
  [options EXCEPT !.parse = "JSON.parse", !.serialize = "JSON.stringify"]

\* an application: the option objects its components pass to useStoredState.
\* The first one shares the query key "tab" between a query-only hook and a
\* hook with session storage and validValues; the second one has a hook with
\* local storage and a validate function and a storage-only hook. Both also
\* pass option objects that useStoredState rejects.
TabApp ==
  { Opt("tab", Undefined, Undefined, Num(1), FALSE, {}, Undefined),
    Opt("tab", "k", Undefined, Num(2), TRUE, {Num(1), Num(2)}, Undefined),
    Opt("tab", "k", "k", Num(1), FALSE, {}, Undefined),
    Opt("tab", "k", Undefined, Num(0), TRUE, {Num(1), Num(2)}, Undefined) }

PageApp ==
  { Opt("page", Undefined, "k", Num(2), FALSE, {}, "atLeastOne"),
    Opt(Undefined, "k", Undefined, Num(0), FALSE, {}, Undefined),
    Opt("page", "k", "k", Num(0), TRUE, {Num(1), Num(2)}, Undefined),
    Opt("page", Undefined, "k", Num(0), FALSE, {}, "atLeastOne"),
    Opt(Undefined, Undefined, Undefined, Num(1), FALSE, {}, Undefined) }

\* an application whose hooks pass JSON.parse and JSON.stringify and share the
\* query key "count"
JsonApp ==
  { WithJson(Opt("count", Undefined, "k", Num(1), FALSE, {}, Undefined)),
    WithJson(Opt("count", "k", Undefined, Num(2), FALSE, {}, Undefined)) }

\* an application whose hooks are bound to a query key only and are
\* re-rendered with the other query key
RouteApp ==
  { Opt("tab", Undefined, Undefined, Num(1), FALSE, {}, Undefined),
    Opt("page", Undefined, Undefined, Num(1), FALSE, {}, Undefined) }

\* an application with boolean hooks (query key and local storage)
FlagApp ==
  { Opt("flag", Undefined, "k", Bool(FALSE), FALSE, {}, Undefined) }

\* an application with string hooks (session storage)
NoteApp ==
  { Opt(Undefined, "k", Undefined, Str("a"), FALSE, {}, Undefined) }

\* an application that re-renders its hook with a longer list of valid values
ChoiceApp ==
  { Opt("tab", Undefined, Undefined, Num(1), TRUE, {Num(1)}, Undefined),
    Opt("tab", Undefined, Undefined, Num(1), TRUE, {Num(1), Num(2)}, Undefined) }

Apps == {TabApp, PageApp, JsonApp, RouteApp, FlagApp, NoteApp, ChoiceApp}

NoOptions == Opt(Undefined, Undefined, Undefined, Null, FALSE, {}, Undefined)

\* raw strings found in the stores before the first mount: canonical and
\* non-canonical numerals, and text that is not a number
InitQueryRaws == {"2", "0", "x"}
InitSessionRaws == {"01", "0"}
InitLocalRaws == {"1"}

QueryKeys == {"tab", "page", "count", "flag"}
StorageKeys == {"k"}

(* ---------------------------- state ------------------------------------ *)

VARIABLES
  app,                      \* the option objects the application passes
  window,                   \* whether the host has a window (a browser) or
                            \* not (a server render)
  history,                  \* window.history: its length and the state object
                            \* of the current entry
  url,                      \* window.location.search: query key -> raw string
  sessionStorage,           \* window.sessionStorage: key -> raw string
  localStorage,             \* window.localStorage: key -> raw string
  activeQueryKeyInstances,  \* query key -> set of registered instance ids
  hook,                     \* per instance: the hook's React state
  last,                     \* the most recent call made by the application
  validatorCalls,           \* the calls of validValues.includes / validate made
                            \* by the latest step, in call order
  storeReads                \* the store lookups made by the latest step, in
                            \* call order; parse is called on every raw string
                            \* found

vars ==
  <<app, window, history, url, sessionStorage, localStorage, activeQueryKeyInstances,
    hook, last, validatorCalls, storeReads>>

Unmounted ==
  [status |-> "unmounted", options |-> NoOptions, state |-> Null,
   queryState |-> Null, sessionStorageState |-> Null, localStorageState |-> Null,
   update |-> NoUpdate, adapterUpdate |-> NoUpdate, phase |-> "idle",
   registered |-> NullKey]

\* a call as the application made it: op on instance id with argument arg;
\* prev is the runtime value when setState was called (for a re-render, the
\* query key the instance was registered for), quiet says that no update was
\* pending then, options are those of a failed first render, a re-render or an
\* unmount,
\* batched says that this is a setState called while the state update of a
\* setState of another instance was still queued
Call(op, id, arg, prev, options, error, quiet) ==
  [op |-> op, id |-> id, arg |-> arg, prev |-> prev, options |-> options,
   error |-> error, quiet |-> quiet,
   batched |-> (op = "set" /\ \E j \in Ids \ {id} : hook[j].update # NoUpdate)]

Stores(keys, raws) == UNION {[D -> raws] : D \in SUBSET keys}

\* window.history as the model sees it
History(length, state) == [length |-> length, state |-> state]

Init ==
  /\ app \in Apps
  /\ window = TRUE
  /\ history = History(1, Null)
  /\ url \in Stores({o.queryKey : o \in app} \ {Undefined}, InitQueryRaws)
  /\ sessionStorage \in
       Stores({o.sessionStorageKey : o \in app} \ {Undefined}, InitSessionRaws)
  /\ localStorage \in
       Stores({o.localStorageKey : o \in app} \ {Undefined}, InitLocalRaws)
  /\ activeQueryKeyInstances = << >>
  /\ hook = [i \in Ids |-> Unmounted]
  /\ last = Call("none", 0, Null, Null, NoOptions, NoError, TRUE)
  /\ validatorCalls = << >>
  /\ storeReads = << >>

(* ---------------------------- useKeyStore ------------------------------ *)

\* window.history.pushState(state, "", url): a new entry after the current one
pushState(h, state) == [length |-> h.length + 1, state |-> state]

\* window.history.replaceState(state, "", url): the current entry is replaced,
\* the number of entries stays
replaceState(h, state) == [length |-> h.length, state |-> state]

\* the history after the setter of the query adapter bound to key ran: it
\* passes window.history.state on
HistoryAfterWrite(key, h) ==
  IF key = NullKey
    THEN h
    ELSE IF ~window
      THEN h
      ELSE replaceState(h, h.state)

Put(store, key, stringValue) ==
  [k \in DOMAIN store \cup {key} |-> IF k = key THEN stringValue ELSE store[k]]

Remove(store, key) == [k \in DOMAIN store \ {key} |-> store[k]]

\* getStorageValue of the adapter bound to (key, source)
getStorageValue(options, key, source) ==
  LET store == CASE source = "query" -> url
                 [] source = "localStorage" -> localStorage
                 [] source = "sessionStorage" -> sessionStorage
  IN  IF key = NullKey
        THEN Null
        ELSE IF ~window
          THEN Null
          ELSE IF key \notin DOMAIN store
            THEN Null
            ELSE parseValue(options, store[key])

\* what a lookup returns for a key the store has no entry for
NoEntry == "<no entry>"

\* the lookup getStorageValue of the adapter bound to (key, source) makes:
\* none when the key is null or there is no window, else one, whose raw string
\* (if there is one) is passed to parse
StoreRead(key, source) ==
  LET store == CASE source = "query" -> url
                 [] source = "localStorage" -> localStorage
                 [] source = "sessionStorage" -> sessionStorage
  IN  IF key = NullKey
        THEN << >>
        ELSE IF ~window
          THEN << >>
          ELSE << [source |-> source, key |-> key,
                   raw |-> IF key \in DOMAIN store THEN store[key] ELSE NoEntry] >>

\* the lookups of the three adapters in a first render with these options; a
\* parse that throws ends the render
StoreReads(options) ==
  LET queryRead == StoreRead(AdapterKey(options.queryKey), "query")
      sessionRead == StoreRead(AdapterKey(options.sessionStorageKey), "sessionStorage")
      localRead == StoreRead(AdapterKey(options.localStorageKey), "localStorage")
      Throws(read) == /\ read # << >>
                      /\ read[1].raw # NoEntry
                      /\ parseValue(options, read[1].raw) = Thrown
  IN  queryRead
        \o (IF Throws(queryRead) THEN << >>
            ELSE sessionRead \o (IF Throws(sessionRead) THEN << >> ELSE localRead))

\* setStorageValue that writes although there is no window
setStorageValueWithoutWindow(options, key, store, value) ==
  IF key = NullKey
    THEN store
    ELSE Put(store, key, serializeValue(options, value))

\* setStorageValue that writes only when the store has no entry for key
setStorageValueIfAbsent(options, key, store, value) ==
  IF key = NullKey \/ ~window \/ key \in DOMAIN store
    THEN store
    ELSE Put(store, key, serializeValue(options, value))

\* setStorageValue: the store after the adapter bound to key wrote value
setStorageValue(options, key, store, value) ==
  IF key = NullKey
    THEN store
    ELSE IF ~window
      THEN store
      ELSE Put(store, key, serializeValue(options, value))

\* registry effect that runs for the storage sources too
RegistryEffectRunsForAnySource(key, source) == ~(key = NullKey \/ ~window)

\* whether the registry effect of the adapter bound to (key, source) goes past
\* its guard, registers the instance and returns a cleanup
RegistryEffectRuns(key, source) ==
  ~(source # "query" \/ key = NullKey \/ ~window)

\* registry setup that stores a fresh set holding only instance i
RegistrySetupFreshSet(i, key, registry) ==
  IF key = NullKey THEN registry ELSE Put(registry, key, {i})

\* setup of the registry effect of instance i for key
RegistrySetup(i, key, registry) ==
  IF key = NullKey
    THEN registry
    ELSE LET instances == IF key \in DOMAIN registry THEN registry[key] ELSE {}
         IN  Put(registry, key, instances \cup {i})

\* registry cleanup that counts consumers: it takes one instance out of the
\* set, the calling one or another
RegistryCleanupCounting(i, key, registry, location) ==
  IF key = NullKey \/ key \notin DOMAIN registry
    THEN [registry |-> registry, url |-> location]
    ELSE LET gone == IF i \in registry[key] THEN i
                     ELSE CHOOSE j \in registry[key] : TRUE
             activeInstances == registry[key] \ {gone}
         IN  IF Cardinality(activeInstances) > 0
               THEN [registry |-> Put(registry, key, activeInstances),
                     url |-> location]
               ELSE [registry |-> Remove(registry, key),
                     url |-> Remove(location, key)]

\* registry cleanup that deletes the query parameter although other instances
\* are still registered
RegistryCleanupAlwaysDeletes(i, key, registry, location) ==
  IF key = NullKey \/ key \notin DOMAIN registry
    THEN [registry |-> registry, url |-> location]
    ELSE LET activeInstances == registry[key] \ {i}
         IN  [registry |-> IF activeInstances # {}
                             THEN Put(registry, key, activeInstances)
                             ELSE Remove(registry, key),
              url |-> Remove(location, key)]

\* registry cleanup that deletes the registry entry but not the query parameter
RegistryCleanupKeepsParam(i, key, registry, location) ==
  IF key = NullKey \/ key \notin DOMAIN registry
    THEN [registry |-> registry, url |-> location]
    ELSE LET activeInstances == registry[key] \ {i}
         IN  [registry |-> IF activeInstances # {}
                             THEN Put(registry, key, activeInstances)
                             ELSE Remove(registry, key),
              url |-> location]

\* registry cleanup that takes the instance out of the set and keeps the
\* entry, empty or not
RegistryCleanupKeepsEntry(i, key, registry, location) ==
  IF key = NullKey \/ key \notin DOMAIN registry
    THEN [registry |-> registry, url |-> location]
    ELSE LET activeInstances == registry[key] \ {i}
         IN  [registry |-> Put(registry, key, activeInstances),
              url |-> IF activeInstances # {} THEN location ELSE Remove(location, key)]

\* cleanup returned by the registry effect of instance i, set up for key:
\* the registry and the URL afterwards
RegistryCleanup(i, key, registry, location) ==
  IF key = NullKey
    THEN [registry |-> registry, url |-> location]
    ELSE IF key \notin DOMAIN registry
      THEN [registry |-> registry, url |-> location]
      ELSE LET activeInstances == registry[key] \ {i}
           IN  IF Cardinality(activeInstances) > 0
                 THEN [registry |-> Put(registry, key, activeInstances),
                       url |-> location]
                 ELSE [registry |-> Remove(registry, key),
                       url |-> Remove(location, key)]

\* the history after the cleanup of the registry effect of instance i, set up
\* for key, ran: only the last consumer's cleanup touches the history
HistoryAfterCleanup(i, key, registry, h) ==
  IF key = NullKey
    THEN h
    ELSE IF key \notin DOMAIN registry
      THEN h
      ELSE IF Cardinality(registry[key] \ {i}) > 0
        THEN h
        ELSE replaceState(h, h.state)

(* ---------------------------- useStoredState --------------------------- *)

\* validatedQueryState and its siblings: an adapter state that is null or
\* fails validation counts as null
Validated(options, adapterState) ==
  IF adapterState # Null /\ isValid(options, adapterState) THEN adapterState ELSE Null

\* a || b: every falsy a gives way to b
CoalesceTruthy(a, b) ==
  IF a \in {Null, NaN, Bool(FALSE), Num(0), Str("")} THEN b ELSE a

\* a ?? b
Coalesce(a, b) == IF a # Null THEN a ELSE b

\* initialState with the storage tiers consulted before the query tier
initialStateStorageFirst(options, queryState, sessionStorageState, localStorageState) ==
  Coalesce(Validated(options, sessionStorageState),
    Coalesce(Validated(options, localStorageState),
      Coalesce(Validated(options, queryState), options.defaultValue)))

\* initialState of useStoredState
initialState(options, queryState, sessionStorageState, localStorageState) ==
  Coalesce(Validated(options, queryState),
    Coalesce(Validated(options, sessionStorageState),
      Coalesce(Validated(options, localStorageState), options.defaultValue)))

\* syncAllStores that calls the setter of the query adapter only
syncAllStoresQueryOnly(options, location, value) ==
  [url |-> setStorageValue(options, AdapterKey(options.queryKey), location, value),
   sessionStorage |-> sessionStorage,
   localStorage |-> localStorage]

\* syncAllStores that overwrites every entry of session storage, not only the
\* one under the session storage key of the options
syncAllStoresEverySessionKey(options, location, value) ==
  LET written ==
        setStorageValue(options, AdapterKey(options.sessionStorageKey), sessionStorage, value)
  IN  [url |-> setStorageValue(options, AdapterKey(options.queryKey), location, value),
       sessionStorage |-> [k \in DOMAIN written |-> serializeValue(options, value)],
       localStorage |->
         setStorageValue(options, AdapterKey(options.localStorageKey), localStorage, value)]

\* syncAllStores: the stores after the setters of the three adapters wrote value
syncAllStores(options, location, value) ==
  [url |-> setStorageValue(options, AdapterKey(options.queryKey), location, value),
   sessionStorage |->
     setStorageValue(options, AdapterKey(options.sessionStorageKey), sessionStorage, value),
   localStorage |->
     setStorageValue(options, AdapterKey(options.localStorageKey), localStorage, value)]

\* one call of the validation strategy: the value it is applied to and the
\* place of the call (an adapter's source, "defaultValue" or "setState")
ValidatorCall(source, value) == [source |-> source, value |-> value]

\* the calls a render makes when it applies isValid to every adapter state,
\* null or not
ValidatorCallsUnguarded(options, queryState, sessionStorageState, localStorageState) ==
  IF NoStrategy(options)
    THEN << >>
    ELSE << ValidatorCall("query", queryState),
            ValidatorCall("sessionStorage", sessionStorageState),
            ValidatorCall("localStorage", localStorageState),
            ValidatorCall("defaultValue", options.defaultValue) >>

\* the calls of the validation strategy in one render of the hook body, through
\* isValid: the adapter states that are not null, then defaultValue
ValidatorCalls(options, queryState, sessionStorageState, localStorageState) ==
  IF NoStrategy(options)
    THEN << >>
    ELSE (IF queryState # Null THEN <<ValidatorCall("query", queryState)>> ELSE << >>)
      \o (IF sessionStorageState # Null
            THEN <<ValidatorCall("sessionStorage", sessionStorageState)>> ELSE << >>)
      \o (IF localStorageState # Null
            THEN <<ValidatorCall("localStorage", localStorageState)>> ELSE << >>)
      \o <<ValidatorCall("defaultValue", options.defaultValue)>>

\* a render that validates the hydrated initial state instead of defaultValue
RenderErrorChecksInitialState(options) ==
  LET optionError == validateUseStoredStateOptions(OptionKinds(options))
      state == initialState(options,
                 getStorageValue(options, AdapterKey(options.queryKey), "query"),
                 getStorageValue(options, AdapterKey(options.sessionStorageKey),
                                 "sessionStorage"),
                 getStorageValue(options, AdapterKey(options.localStorageKey),
                                 "localStorage"))
  IN  IF optionError # NoError
        THEN optionError
        ELSE IF ~isValid(options, state)
          THEN ErrDefaultValue
          ELSE NoError

\* the error a render of the hook body with these options throws, or NoError
RenderError(options) ==
  LET optionError == validateUseStoredStateOptions(OptionKinds(options))
  IN  IF optionError # NoError
        THEN optionError
        ELSE IF ~isValid(options, options.defaultValue)
          THEN ErrDefaultValue
          ELSE NoError

\* the error the first render throws, or NoError: that of the options, else
\* the exception of a parse option called by the initialiser of an adapter's
\* state, else that of the default value
MountError(options, queryState, sessionStorageState, localStorageState) ==
  IF validateUseStoredStateOptions(OptionKinds(options)) # NoError
    THEN validateUseStoredStateOptions(OptionKinds(options))
    ELSE IF Thrown \in {queryState, sessionStorageState, localStorageState}
      THEN ErrParseThrew
      ELSE RenderError(options)

\* passive effects are pending, or an effect queued an adapter update that the
\* framework renders before it handles anything else
Busy == \E j \in Ids : hook[j].phase = "effects" \/ hook[j].adapterUpdate # NoUpdate

Quiescent == ~Busy /\ \A j \in Ids : hook[j].update = NoUpdate

\* a first render that writes the resolved value to the stores while it
\* renders, before the default value is checked, instead of in an effect
MountWritesWhileRendering(i, options) ==
  /\ hook[i].status = "unmounted"
  /\ Quiescent
  /\ LET queryState == getStorageValue(options, AdapterKey(options.queryKey), "query")
         sessionStorageState ==
           getStorageValue(options, AdapterKey(options.sessionStorageKey), "sessionStorage")
         localStorageState ==
           getStorageValue(options, AdapterKey(options.localStorageKey), "localStorage")
         state == initialState(options, queryState, sessionStorageState, localStorageState)
         error == MountError(options, queryState, sessionStorageState, localStorageState)
         synced == IF error \in {NoError, ErrDefaultValue}
                     THEN syncAllStores(options, url, state)
                     ELSE [url |-> url, sessionStorage |-> sessionStorage,
                           localStorage |-> localStorage]
     IN  /\ validatorCalls' =
               IF error \in {NoError, ErrDefaultValue}
                 THEN ValidatorCalls(options, queryState, sessionStorageState,
                                     localStorageState)
                 ELSE << >>
         /\ storeReads' =
               IF validateUseStoredStateOptions(OptionKinds(options)) # NoError
                 THEN << >>
                 ELSE StoreReads(options)
         /\ url' = synced.url
         /\ sessionStorage' = synced.sessionStorage
         /\ localStorage' = synced.localStorage
         /\ IF error # NoError
           THEN /\ last' = Call("mount", i, Null, Null, options, error, TRUE)
                /\ UNCHANGED hook
           ELSE /\ hook' = [hook EXCEPT ![i] =
                     [status |-> "mounted", options |-> options, state |-> state,
                      queryState |-> queryState,
                      sessionStorageState |-> sessionStorageState,
                      localStorageState |-> localStorageState,
                      update |-> NoUpdate, adapterUpdate |-> NoUpdate,
                      phase |-> "effects", registered |-> NullKey]]
                /\ last' = Call("mount", i, state, Null, NoOptions, NoError, TRUE)
  /\ UNCHANGED <<app, window, history, activeQueryKeyInstances>>

\* first render of instance i with the given options
Mount(i, options) ==
  /\ hook[i].status = "unmounted"
  /\ Quiescent
  /\ LET queryState == getStorageValue(options, AdapterKey(options.queryKey), "query")
         sessionStorageState ==
           getStorageValue(options, AdapterKey(options.sessionStorageKey), "sessionStorage")
         localStorageState ==
           getStorageValue(options, AdapterKey(options.localStorageKey), "localStorage")
         state == initialState(options, queryState, sessionStorageState, localStorageState)
         error == MountError(options, queryState, sessionStorageState, localStorageState)
     IN  /\ validatorCalls' =
               IF error \in {validateUseStoredStateOptions(OptionKinds(options)),
                             ErrParseThrew} \ {NoError}
                 THEN << >>
                 ELSE ValidatorCalls(options, queryState, sessionStorageState,
                                     localStorageState)
         /\ storeReads' =
               IF validateUseStoredStateOptions(OptionKinds(options)) # NoError
                 THEN << >>
                 ELSE StoreReads(options)
         /\ IF error # NoError
           THEN /\ last' = Call("mount", i, Null, Null, options, error, TRUE)
                /\ UNCHANGED hook
           ELSE /\ hook' = [hook EXCEPT ![i] =
                     [status |-> "mounted", options |-> options, state |-> state,
                      queryState |-> queryState,
                      sessionStorageState |-> sessionStorageState,
                      localStorageState |-> localStorageState,
                      update |-> NoUpdate, adapterUpdate |-> NoUpdate,
                      phase |-> "effects", registered |-> NullKey]]
                /\ last' = Call("mount", i, state, Null, NoOptions, NoError, TRUE)
  /\ UNCHANGED <<app, window, history, url, sessionStorage, localStorage, activeQueryKeyInstances>>

\* a registry effect that runs after the first render only and never again
QueryRegistrationOnce(options, registered) ==
  IF registered # NullKey
    THEN registered
    ELSE IF RegistryEffectRuns(AdapterKey(options.queryKey), "query")
      THEN AdapterKey(options.queryKey)
      ELSE NullKey

\* the key the registry effect of the query adapter is to be set up for after
\* a render with these options (its dependencies are key and source): the
\* query key, or none when the effect stops at its guard
QueryRegistration(options, registered) ==
  IF RegistryEffectRuns(AdapterKey(options.queryKey), "query")
    THEN AdapterKey(options.queryKey)
    ELSE NullKey

\* effects whose adapter setters schedule a render even when the adapter
\* state already is the value written
EffectsAlwaysUpdate(i) ==
  /\ hook[i].status = "mounted"
  /\ hook[i].phase = "effects"
  /\ LET h == hook[i]
         options == h.options
         sessionStorageKey == AdapterKey(options.sessionStorageKey)
         localStorageKey == AdapterKey(options.localStorageKey)
         key == QueryRegistration(options, h.registered)
         cleaned == IF key # h.registered
                      THEN RegistryCleanup(i, h.registered, activeQueryKeyInstances, url)
                      ELSE [registry |-> activeQueryKeyInstances, url |-> url]
         ofQuery == IF key # h.registered
                      THEN RegistrySetup(i, key, cleaned.registry)
                      ELSE cleaned.registry
         ofSession == IF RegistryEffectRuns(sessionStorageKey, "sessionStorage")
                        THEN RegistrySetup(i, sessionStorageKey, ofQuery)
                        ELSE ofQuery
         registry == IF RegistryEffectRuns(localStorageKey, "localStorage")
                       THEN RegistrySetup(i, localStorageKey, ofSession)
                       ELSE ofSession
         synced == syncAllStores(options, cleaned.url, h.state)
     IN  /\ activeQueryKeyInstances' = registry
         /\ url' = synced.url
         /\ history' =
              HistoryAfterWrite(AdapterKey(options.queryKey),
                IF key # h.registered
                  THEN HistoryAfterCleanup(i, h.registered, activeQueryKeyInstances,
                                           history)
                  ELSE history)
         /\ sessionStorage' = synced.sessionStorage
         /\ localStorage' = synced.localStorage
         /\ hook' = [hook EXCEPT ![i].phase = "idle",
                                 ![i].registered = key,
                                 ![i].adapterUpdate = h.state]
  /\ validatorCalls' = << >>
  /\ storeReads' = << >>
  /\ UNCHANGED <<app, window, last>>

\* the passive effects of instance i after a committed render: the registry
\* effect of the query adapter (cleanup, then setup, when its key changed),
\* those of the storage adapters, which stop at their guard, and the sync
\* effect, which calls the setter of every adapter. registered is the key the
\* query adapter's effect has a cleanup for.
Effects(i) ==
  /\ hook[i].status = "mounted"
  /\ hook[i].phase = "effects"
  /\ LET h == hook[i]
         options == h.options
         sessionStorageKey == AdapterKey(options.sessionStorageKey)
         localStorageKey == AdapterKey(options.localStorageKey)
         key == QueryRegistration(options, h.registered)
         cleaned == IF key # h.registered
                      THEN RegistryCleanup(i, h.registered, activeQueryKeyInstances, url)
                      ELSE [registry |-> activeQueryKeyInstances, url |-> url]
         ofQuery == IF key # h.registered
                      THEN RegistrySetup(i, key, cleaned.registry)
                      ELSE cleaned.registry
         ofSession == IF RegistryEffectRuns(sessionStorageKey, "sessionStorage")
                        THEN RegistrySetup(i, sessionStorageKey, ofQuery)
                        ELSE ofQuery
         registry == IF RegistryEffectRuns(localStorageKey, "localStorage")
                       THEN RegistrySetup(i, localStorageKey, ofSession)
                       ELSE ofSession
         stale == \/ h.queryState # h.state
                  \/ h.sessionStorageState # h.state
                  \/ h.localStorageState # h.state
         synced == syncAllStores(options, cleaned.url, h.state)
     IN  /\ activeQueryKeyInstances' = registry
         /\ url' = synced.url
         /\ history' =
              HistoryAfterWrite(AdapterKey(options.queryKey),
                IF key # h.registered
                  THEN HistoryAfterCleanup(i, h.registered, activeQueryKeyInstances,
                                           history)
                  ELSE history)
         /\ sessionStorage' = synced.sessionStorage
         /\ localStorage' = synced.localStorage
         /\ hook' = [hook EXCEPT ![i].phase = "idle",
                                 ![i].registered = key,
                                 ![i].adapterUpdate =
                                   IF stale THEN h.state ELSE NoUpdate]
  /\ validatorCalls' = << >>
  /\ storeReads' = << >>
  /\ UNCHANGED <<app, window, last>>

\* a render of instance i that applies its queued state updates
Render(i) ==
  /\ hook[i].status = "mounted"
  /\ hook[i].phase = "idle"
  /\ \/ hook[i].adapterUpdate # NoUpdate
     \/ hook[i].update # NoUpdate /\ ~Busy
  /\ LET h == hook[i]
         state == IF h.update # NoUpdate THEN h.update ELSE h.state
         queryState == IF h.adapterUpdate # NoUpdate THEN h.adapterUpdate ELSE h.queryState
         sessionStorageState ==
           IF h.adapterUpdate # NoUpdate THEN h.adapterUpdate ELSE h.sessionStorageState
         localStorageState ==
           IF h.adapterUpdate # NoUpdate THEN h.adapterUpdate ELSE h.localStorageState
         changed == \/ state # h.state
                    \/ queryState # h.queryState
                    \/ sessionStorageState # h.sessionStorageState
                    \/ localStorageState # h.localStorageState
     IN  /\ hook' = [hook EXCEPT ![i].state = state,
                                 ![i].queryState = queryState,
                                 ![i].sessionStorageState = sessionStorageState,
                                 ![i].localStorageState = localStorageState,
                                 ![i].update = NoUpdate,
                                 ![i].adapterUpdate = NoUpdate,
                                 ![i].phase = IF changed THEN "effects" ELSE "idle"]
         /\ validatorCalls' =
               ValidatorCalls(h.options, queryState, sessionStorageState,
                              localStorageState)
         /\ storeReads' = << >>
  /\ UNCHANGED <<app, window, history, url, sessionStorage, localStorage, activeQueryKeyInstances, last>>

\* setState without the validity check
setStateUnchecked(i, newState) ==
  /\ hook[i].status = "mounted"
  /\ ~Busy
  /\ last' = Call("set", i, newState, hook[i].state, NoOptions, NoError, Quiescent)
  /\ validatorCalls' = IF NoStrategy(hook[i].options) THEN << >>
                       ELSE <<ValidatorCall("setState", newState)>>
  /\ storeReads' = << >>
  /\ IF newState = hook[i].state /\ hook[i].update = NoUpdate
       THEN UNCHANGED hook
       ELSE hook' = [hook EXCEPT ![i].update = newState]
  /\ UNCHANGED <<app, window, history, url, sessionStorage, localStorage, activeQueryKeyInstances>>

\* setState that writes the stores itself, before the queued state update is
\* rendered
setStateWritesFirst(i, newState) ==
  /\ hook[i].status = "mounted"
  /\ ~Busy
  /\ last' = Call("set", i, newState, hook[i].state, NoOptions, NoError, Quiescent)
  /\ validatorCalls' = IF NoStrategy(hook[i].options) THEN << >>
                       ELSE <<ValidatorCall("setState", newState)>>
  /\ storeReads' = << >>
  /\ IF ~isValid(hook[i].options, newState)
       THEN UNCHANGED <<hook, url, sessionStorage, localStorage>>
       ELSE /\ hook' = [hook EXCEPT ![i].update = newState]
            /\ url' = syncAllStores(hook[i].options, url, newState).url
            /\ sessionStorage' =
                 syncAllStores(hook[i].options, url, newState).sessionStorage
            /\ localStorage' = syncAllStores(hook[i].options, url, newState).localStorage
  /\ UNCHANGED <<app, window, history, activeQueryKeyInstances>>

\* setState that also queues the update in every other mounted instance bound
\* to the same query key
setStateBroadcast(i, newState) ==
  /\ hook[i].status = "mounted"
  /\ ~Busy
  /\ last' = Call("set", i, newState, hook[i].state, NoOptions, NoError, Quiescent)
  /\ validatorCalls' = IF NoStrategy(hook[i].options) THEN << >>
                       ELSE <<ValidatorCall("setState", newState)>>
  /\ storeReads' = << >>
  /\ IF ~isValid(hook[i].options, newState)
       THEN UNCHANGED hook
       ELSE hook' = [j \in Ids |->
                      IF /\ hook[j].status = "mounted"
                         /\ hook[j].options.queryKey = hook[i].options.queryKey
                         /\ newState # hook[j].state \/ hook[j].update # NoUpdate
                        THEN [hook[j] EXCEPT !.update = newState]
                        ELSE hook[j]]
  /\ UNCHANGED <<app, window, history, url, sessionStorage, localStorage, activeQueryKeyInstances>>

\* setState of useStoredState, as returned by the latest render of instance i
setState(i, newState) ==
  /\ hook[i].status = "mounted"
  /\ ~Busy
  /\ last' = Call("set", i, newState, hook[i].state, NoOptions, NoError, Quiescent)
  /\ validatorCalls' = IF NoStrategy(hook[i].options) THEN << >>
                       ELSE <<ValidatorCall("setState", newState)>>
  /\ storeReads' = << >>
  /\ IF ~isValid(hook[i].options, newState)
       THEN UNCHANGED hook
       ELSE IF newState = hook[i].state /\ hook[i].update = NoUpdate
         THEN UNCHANGED hook
         ELSE hook' = [hook EXCEPT ![i].update = newState]
  /\ UNCHANGED <<app, window, history, url, sessionStorage, localStorage, activeQueryKeyInstances>>

\* a teardown that also removes the storage entries of the instance's keys
TeardownClearsStorage(i) ==
  LET cleaned == RegistryCleanup(i, hook[i].registered, activeQueryKeyInstances, url)
  IN  /\ activeQueryKeyInstances' = cleaned.registry
      /\ url' = cleaned.url
      /\ history' =
           HistoryAfterCleanup(i, hook[i].registered, activeQueryKeyInstances, history)
      /\ hook' = [hook EXCEPT ![i] = Unmounted]
      /\ sessionStorage' = Remove(sessionStorage, hook[i].options.sessionStorageKey)
      /\ localStorage' = Remove(localStorage, hook[i].options.localStorageKey)

\* a teardown that runs no cleanup: the instance stays in the registry
TeardownKeepsRegistration(i) ==
  /\ hook' = [hook EXCEPT ![i] = Unmounted]
  /\ UNCHANGED <<activeQueryKeyInstances, url, history, sessionStorage, localStorage>>

\* the framework removes instance i: the cleanups of its effects run
Teardown(i) ==
  LET cleaned == RegistryCleanup(i, hook[i].registered, activeQueryKeyInstances, url)
  IN  /\ activeQueryKeyInstances' = cleaned.registry
      /\ url' = cleaned.url
      /\ history' =
           HistoryAfterCleanup(i, hook[i].registered, activeQueryKeyInstances, history)
      /\ hook' = [hook EXCEPT ![i] = Unmounted]
      /\ UNCHANGED <<sessionStorage, localStorage>>

\* the owner of instance i removes it. When the call before it was a valid
\* setValue of the same instance, the call is recorded with what that call
\* was recorded with: the candidate, the runtime value at the call, and
\* whether nothing was pending then
Unmount(i) ==
  /\ hook[i].status = "mounted"
  /\ Quiescent
  /\ Teardown(i)
  /\ UNCHANGED <<app, window>>
  /\ IF last.op = "set" /\ last.id = i /\ isValid(hook[i].options, last.arg)
       THEN last' = Call("unmount", i, last.arg, last.prev, hook[i].options, NoError,
                         last.quiet)
       ELSE last' = Call("unmount", i, Null, Null, hook[i].options, NoError, TRUE)
  /\ validatorCalls' = << >>
  /\ storeReads' = << >>

\* a re-render whose new options do not reach the hook's callbacks: setState
\* keeps validating against the options of an earlier render
RerenderKeepsOptions(i, options) ==
  /\ hook[i].status = "mounted"
  /\ Quiescent
  /\ UNCHANGED <<app, window>>
  /\ LET error == RenderError(options)
     IN  /\ last' = Call("rerender", i, Null, Str(hook[i].registered), options, error,
                          TRUE)
         /\ storeReads' = << >>
         /\ validatorCalls' =
               IF validateUseStoredStateOptions(OptionKinds(options)) # NoError
                 THEN << >>
                 ELSE ValidatorCalls(options, hook[i].queryState,
                                     hook[i].sessionStorageState,
                                     hook[i].localStorageState)
         /\ IF error # NoError
              THEN Teardown(i)
              ELSE /\ hook' = [hook EXCEPT ![i].phase = "effects"]
                   /\ UNCHANGED <<history, url, sessionStorage, localStorage,
                                  activeQueryKeyInstances>>

\* a re-render after which no effect runs: the sync effect would depend on
\* the runtime value alone, and the registry effect on nothing
RerenderSkipsEffects(i, options) ==
  /\ hook[i].status = "mounted"
  /\ Quiescent
  /\ UNCHANGED <<app, window>>
  /\ LET error == RenderError(options)
     IN  /\ last' = Call("rerender", i, Null, Str(hook[i].registered), options, error,
                          TRUE)
         /\ storeReads' = << >>
         /\ validatorCalls' =
               IF validateUseStoredStateOptions(OptionKinds(options)) # NoError
                 THEN << >>
                 ELSE ValidatorCalls(options, hook[i].queryState,
                                     hook[i].sessionStorageState,
                                     hook[i].localStorageState)
         /\ IF error # NoError
              THEN Teardown(i)
              ELSE /\ hook' = [hook EXCEPT
                        ![i].options = options]
                   /\ UNCHANGED <<history, url, sessionStorage, localStorage,
                                  activeQueryKeyInstances>>

\* the owner of instance i renders it again with (possibly different) options;
\* a render that throws makes the framework remove the instance
Rerender(i, options) ==
  /\ hook[i].status = "mounted"
  /\ Quiescent
  /\ UNCHANGED <<app, window>>
  /\ LET error == RenderError(options)
     IN  /\ last' = Call("rerender", i, Null, Str(hook[i].registered), options, error,
                          TRUE)
         /\ storeReads' = << >>
         /\ validatorCalls' =
               IF validateUseStoredStateOptions(OptionKinds(options)) # NoError
                 THEN << >>
                 ELSE ValidatorCalls(options, hook[i].queryState,
                                     hook[i].sessionStorageState,
                                     hook[i].localStorageState)
         /\ IF error # NoError
              THEN Teardown(i)
              ELSE /\ hook' = [hook EXCEPT
                        ![i].options = options,
                        ![i].phase = "effects"]
                   /\ UNCHANGED <<history, url, sessionStorage, localStorage,
                                  activeQueryKeyInstances>>

Next ==
  \/ \E i \in Ids, options \in app : Mount(i, options)
  \/ \E i \in Ids : Effects(i)
  \/ \E i \in Ids : Render(i)
  \/ \E i \in Ids, newState \in Numbers \cup Booleans \cup Strings :
       /\ newState \in StateValues(hook[i].options.defaultValue)
       /\ setState(i, newState)
  \/ \E i \in Ids : Unmount(i)
  \/ \E i \in Ids, options \in app : Rerender(i, options)

Spec == Init /\ [][Next]_vars

(* ---------------------------- without a window -------------------------- *)

\* a host without a window: there is no location and no storage
ServerInit ==
  /\ app \in Apps
  /\ window = FALSE
  /\ history = History(1, Null)
  /\ url = << >>
  /\ sessionStorage = << >>
  /\ localStorage = << >>
  /\ activeQueryKeyInstances = << >>
  /\ hook = [i \in Ids |-> Unmounted]
  /\ last = Call("none", 0, Null, Null, NoOptions, NoError, TRUE)
  /\ validatorCalls = << >>
  /\ storeReads = << >>

ServerSpec == ServerInit /\ [][Next]_vars

(* ---------------------------- under StrictMode ------------------------- *)

\* a component under StrictMode that binds the query key "tab", with and
\* without a session storage key
StrictApp ==
  { Opt("tab", Undefined, Undefined, Str("a"), FALSE, {}, Undefined),
    Opt("tab", "k", Undefined, Str("a"), FALSE, {}, Undefined) }

StrictInit ==
  /\ app = StrictApp
  /\ window = TRUE
  /\ history = History(1, Null)
  /\ url \in Stores({"tab"}, InitQueryRaws)
  /\ sessionStorage \in Stores({"k"}, InitSessionRaws)
  /\ localStorage = << >>
  /\ activeQueryKeyInstances = << >>
  /\ hook = [i \in Ids |-> Unmounted]
  /\ last = Call("none", 0, Null, Null, NoOptions, NoError, TRUE)
  /\ validatorCalls = << >>
  /\ storeReads = << >>

\* the effects of the first commit whose second setup skips the sync effect:
\* the registry effect is set up, cleaned up and set up again, the stores are
\* written by the first setup only
StrictEffectsSyncOnce(i) ==
  /\ hook[i].status = "mounted"
  /\ hook[i].phase = "effects"
  /\ hook[i].registered = NullKey
  /\ LET h == hook[i]
         options == h.options
         key == QueryRegistration(options, h.registered)
         first == syncAllStores(options, url, h.state)
         cleaned == RegistryCleanup(i, key,
                      RegistrySetup(i, key, activeQueryKeyInstances), first.url)
         stale == \/ h.queryState # h.state
                  \/ h.sessionStorageState # h.state
                  \/ h.localStorageState # h.state
     IN  /\ activeQueryKeyInstances' = RegistrySetup(i, key, cleaned.registry)
         /\ url' = cleaned.url
         /\ history' = HistoryAfterCleanup(i, key,
                         RegistrySetup(i, key, activeQueryKeyInstances),
                         HistoryAfterWrite(AdapterKey(options.queryKey), history))
         /\ sessionStorage' = first.sessionStorage
         /\ localStorage' = first.localStorage
         /\ hook' = [hook EXCEPT ![i].phase = "idle",
                                 ![i].registered = key,
                                 ![i].adapterUpdate =
                                   IF stale THEN h.state ELSE NoUpdate]
  /\ validatorCalls' = << >>
  /\ storeReads' = << >>
  /\ UNCHANGED <<app, window, last>>

\* the effects of the first commit of instance i under StrictMode: every
\* effect is set up, then every cleanup runs, then every effect is set up
\* again, all before anything else happens. The registry effect of the query
\* adapter registers, deregisters (the cleanup of a last consumer deletes the
\* entry and the parameter) and registers again; the sync effect has no
\* cleanup and calls the setter of every adapter in both setups.
StrictEffects(i) ==
  /\ hook[i].status = "mounted"
  /\ hook[i].phase = "effects"
  /\ hook[i].registered = NullKey
  /\ LET h == hook[i]
         options == h.options
         key == QueryRegistration(options, h.registered)
         first == syncAllStores(options, url, h.state)
         cleaned == RegistryCleanup(i, key,
                      RegistrySetup(i, key, activeQueryKeyInstances), first.url)
         synced == syncAllStores(options, cleaned.url, h.state)
         stale == \/ h.queryState # h.state
                  \/ h.sessionStorageState # h.state
                  \/ h.localStorageState # h.state
     IN  /\ activeQueryKeyInstances' = RegistrySetup(i, key, cleaned.registry)
         /\ url' = synced.url
         /\ history' =
              HistoryAfterWrite(AdapterKey(options.queryKey),
                HistoryAfterCleanup(i, key,
                  RegistrySetup(i, key, activeQueryKeyInstances),
                  HistoryAfterWrite(AdapterKey(options.queryKey), history)))
         /\ sessionStorage' = synced.sessionStorage
         /\ localStorage' = synced.localStorage
         /\ hook' = [hook EXCEPT ![i].phase = "idle",
                                 ![i].registered = key,
                                 ![i].adapterUpdate =
                                   IF stale THEN h.state ELSE NoUpdate]
  /\ validatorCalls' = << >>
  /\ storeReads' = << >>
  /\ UNCHANGED <<app, window, last>>

\* the effects of a later commit run once, as without StrictMode
LaterEffects(i) ==
  /\ hook[i].registered # NullKey
  /\ Effects(i)

StrictNext ==
  \/ \E i \in Ids, options \in app : Mount(i, options)
  \/ \E i \in Ids : StrictEffects(i)
  \/ \E i \in Ids : LaterEffects(i)
  \/ \E i \in Ids : Render(i)
  \/ \E i \in Ids, newState \in Strings : setState(i, newState)
  \/ \E i \in Ids : Unmount(i)

StrictSpec == StrictInit /\ [][StrictNext]_vars

(* ---------------------------- changing keys ---------------------------- *)

\* a hook that is rendered with the keys "first" and, later, with the keys
\* "second", for the query parameter and for session storage alike
RekeyFirst == Opt("first", "first", Undefined, Str("a"), FALSE, {}, Undefined)
RekeySecond == Opt("second", "second", Undefined, Str("a"), FALSE, {}, Undefined)
RekeyApp == {RekeyFirst, RekeySecond}

RekeyInit ==
  /\ app = RekeyApp
  /\ window = TRUE
  /\ history = History(1, Null)
  /\ url = << >>
  /\ sessionStorage \in Stores({"first", "second"}, {"x"})
  /\ localStorage = << >>
  /\ activeQueryKeyInstances = << >>
  /\ hook = [i \in Ids |-> Unmounted]
  /\ last = Call("none", 0, Null, Null, NoOptions, NoError, TRUE)
  /\ validatorCalls = << >>
  /\ storeReads = << >>

\* every instance is mounted with the first keys; a re-render passes either
\* pair of keys
RekeyNext ==
  \/ \E i \in Ids : Mount(i, RekeyFirst)
  \/ \E i \in Ids : Effects(i)
  \/ \E i \in Ids : Render(i)
  \/ \E i \in Ids, newState \in Strings : setState(i, newState)
  \/ \E i \in Ids : Unmount(i)
  \/ \E i \in Ids, options \in app : Rerender(i, options)

RekeySpec == RekeyInit /\ [][RekeyNext]_vars

(* ---------------------------- activations with keys of their own ------- *)

\* the two option objects name the same entry of some store
SharesKey(a, b) ==
  \/ a.queryKey # Undefined /\ a.queryKey = b.queryKey
  \/ a.sessionStorageKey # Undefined /\ a.sessionStorageKey = b.sessionStorageKey
  \/ a.localStorageKey # Undefined /\ a.localStorageKey = b.localStorageKey

\* with these options instance i shares no key with another mounted instance
Exclusive(i, options) ==
  \A j \in Ids \ {i} :
    hook[j].status = "mounted" => ~SharesKey(options, hook[j].options)

\* the application never renders two hooks that share a key at a time
ExclusiveNext ==
  \/ \E i \in Ids, options \in app : Exclusive(i, options) /\ Mount(i, options)
  \/ \E i \in Ids : Effects(i)
  \/ \E i \in Ids : Render(i)
  \/ \E i \in Ids, newState \in Numbers \cup Booleans \cup Strings :
       /\ newState \in StateValues(hook[i].options.defaultValue)
       /\ setState(i, newState)
  \/ \E i \in Ids : Unmount(i)
  \/ \E i \in Ids, options \in app : Exclusive(i, options) /\ Rerender(i, options)

ExclusiveSpec == Init /\ [][ExclusiveNext]_vars

(* ---------------------------- hand-over within one commit -------------- *)

\* a commit that writes the stores of the new instance before the cleanup of
\* the removed one runs, and registers the new instance after it
HandOverSyncBeforeCleanup(j, i, options) ==
  /\ i # j
  /\ hook[j].status = "mounted" /\ hook[i].status = "unmounted"
  /\ Quiescent
  /\ options.queryKey # Undefined
  /\ hook[j].registered = AdapterKey(options.queryKey)
  /\ LET queryState == getStorageValue(options, AdapterKey(options.queryKey), "query")
         sessionStorageState ==
           getStorageValue(options, AdapterKey(options.sessionStorageKey), "sessionStorage")
         localStorageState ==
           getStorageValue(options, AdapterKey(options.localStorageKey), "localStorage")
         state == initialState(options, queryState, sessionStorageState, localStorageState)
         error == MountError(options, queryState, sessionStorageState, localStorageState)
         key == QueryRegistration(options, NullKey)
         synced == syncAllStores(options, url, state)
         cleaned == RegistryCleanup(j, hook[j].registered, activeQueryKeyInstances,
                                    synced.url)
         stale == \/ queryState # state
                  \/ sessionStorageState # state
                  \/ localStorageState # state
     IN  IF error # NoError
           THEN /\ Teardown(j)
                /\ last' = Call("handover", i, Null, Null, options, error, TRUE)
           ELSE /\ activeQueryKeyInstances' = RegistrySetup(i, key, cleaned.registry)
                /\ url' = cleaned.url
                /\ history' =
                     HistoryAfterCleanup(j, hook[j].registered, activeQueryKeyInstances,
                       HistoryAfterWrite(AdapterKey(options.queryKey), history))
                /\ sessionStorage' = synced.sessionStorage
                /\ localStorage' = synced.localStorage
                /\ hook' = [hook EXCEPT
                     ![j] = Unmounted,
                     ![i] = [status |-> "mounted", options |-> options, state |-> state,
                             queryState |-> queryState,
                             sessionStorageState |-> sessionStorageState,
                             localStorageState |-> localStorageState,
                             update |-> NoUpdate,
                             adapterUpdate |-> IF stale THEN state ELSE NoUpdate,
                             phase |-> "idle", registered |-> key]]
                /\ last' = Call("handover", i, state, Null, hook[j].options, NoError, TRUE)
  /\ validatorCalls' = << >>
  /\ storeReads' = << >>
  /\ UNCHANGED <<app, window>>

\* one commit removes instance j, a consumer of a query key, and mounts
\* instance i with options bound to the same key. The new instance is
\* rendered first, against the stores as they are; then the cleanups of the
\* removed instance run (registry cleanup), then the effects of the new one
\* are set up (registry setup, sync effect). A render that throws removes the
\* whole tree.
HandOver(j, i, options) ==
  /\ i # j
  /\ hook[j].status = "mounted" /\ hook[i].status = "unmounted"
  /\ Quiescent
  /\ options.queryKey # Undefined
  /\ hook[j].registered = AdapterKey(options.queryKey)
  /\ LET queryState == getStorageValue(options, AdapterKey(options.queryKey), "query")
         sessionStorageState ==
           getStorageValue(options, AdapterKey(options.sessionStorageKey), "sessionStorage")
         localStorageState ==
           getStorageValue(options, AdapterKey(options.localStorageKey), "localStorage")
         state == initialState(options, queryState, sessionStorageState, localStorageState)
         error == MountError(options, queryState, sessionStorageState, localStorageState)
         key == QueryRegistration(options, NullKey)
         cleaned == RegistryCleanup(j, hook[j].registered, activeQueryKeyInstances, url)
         synced == syncAllStores(options, cleaned.url, state)
         stale == \/ queryState # state
                  \/ sessionStorageState # state
                  \/ localStorageState # state
     IN  IF error # NoError
           THEN /\ Teardown(j)
                /\ last' = Call("handover", i, Null, Null, options, error, TRUE)
           ELSE /\ activeQueryKeyInstances' = RegistrySetup(i, key, cleaned.registry)
                /\ url' = synced.url
                /\ history' =
                     HistoryAfterWrite(AdapterKey(options.queryKey),
                       HistoryAfterCleanup(j, hook[j].registered, activeQueryKeyInstances,
                                           history))
                /\ sessionStorage' = synced.sessionStorage
                /\ localStorage' = synced.localStorage
                /\ hook' = [hook EXCEPT
                     ![j] = Unmounted,
                     ![i] = [status |-> "mounted", options |-> options, state |-> state,
                             queryState |-> queryState,
                             sessionStorageState |-> sessionStorageState,
                             localStorageState |-> localStorageState,
                             update |-> NoUpdate,
                             adapterUpdate |-> IF stale THEN state ELSE NoUpdate,
                             phase |-> "idle", registered |-> key]]
                /\ last' = Call("handover", i, state, Null, hook[j].options, NoError, TRUE)
  /\ validatorCalls' = << >>
  /\ storeReads' = << >>
  /\ UNCHANGED <<app, window>>

\* the application whose hooks share the query key "tab"
HandOverInit == Init /\ app = TabApp

HandOverNext ==
  \/ Next
  \/ \E j \in Ids, i \in Ids, options \in app : HandOver(j, i, options)

HandOverSpec == HandOverInit /\ [][HandOverNext]_vars

(* ---------------------------- the registry effect alone ---------------- *)

\* the setup and the cleanup of the registry effect called in any order, any
\* number of times, by query adapters bound to the keys "tab" and "page"
RegistryKeys == {"tab", "page"}

\* a call of the registry effect: again says that the call before it was the
\* same one
RegistryCall(op, i, key) ==
  [op |-> op, id |-> i, key |-> key,
   again |-> (last.op = op /\ last.id = i /\ last.key = key)]

RegistryInit ==
  /\ app = {}
  /\ window = TRUE
  /\ history \in {History(length, state) : length \in 1..2, state \in {Null, Str("a")}}
  /\ url \in Stores(RegistryKeys, {"0"})
  /\ sessionStorage = << >>
  /\ localStorage = << >>
  /\ activeQueryKeyInstances = << >>
  /\ hook = [i \in Ids |-> Unmounted]
  /\ last = [op |-> "none", id |-> 0, key |-> NullKey, again |-> FALSE]
  /\ validatorCalls = << >>
  /\ storeReads = << >>

\* the effect's setup runs for instance i and key
SetupCalled(i, key) ==
  /\ activeQueryKeyInstances' = RegistrySetup(i, key, activeQueryKeyInstances)
  /\ last' = RegistryCall("setup", i, key)
  /\ UNCHANGED <<app, window, history, url, sessionStorage, localStorage, hook, validatorCalls,
                 storeReads>>

\* the cleanup that a setup for instance i and key returned is called, whether
\* or not the instance is (still) registered
CleanupCalled(i, key) ==
  /\ LET cleaned == RegistryCleanup(i, key, activeQueryKeyInstances, url)
     IN  /\ activeQueryKeyInstances' = cleaned.registry
         /\ url' = cleaned.url
  /\ history' = HistoryAfterCleanup(i, key, activeQueryKeyInstances, history)
  /\ last' = RegistryCall("cleanup", i, key)
  /\ UNCHANGED <<app, window, sessionStorage, localStorage, hook, validatorCalls,
                 storeReads>>

\* the setter of a query adapter bound to key writes a value
ParamWritten(i, key, value) ==
  /\ url' = setStorageValue(QueryOnly(value), key, url, value)
  /\ history' = HistoryAfterWrite(key, history)
  /\ last' = RegistryCall("write", i, key)
  /\ UNCHANGED <<app, window, sessionStorage, localStorage, activeQueryKeyInstances,
                 hook, validatorCalls, storeReads>>

RegistryNext ==
  \/ \E i \in Ids, key \in RegistryKeys : SetupCalled(i, key)
  \/ \E i \in Ids, key \in RegistryKeys : CleanupCalled(i, key)
  \/ \E i \in Ids, key \in RegistryKeys, value \in Numbers : ParamWritten(i, key, value)

RegistrySpec == RegistryInit /\ [][RegistryNext]_vars

(* ---------------------------- option validation alone ------------------ *)

\* the runtime kinds an option can have: absent, of the expected type, or of
\* another type
KeyKinds == {"undefined", "string", "number"}
ValidValuesKinds == {"undefined", "array", "string"}
FunctionKinds == {"undefined", "function", "boolean"}

OptionKindSpace ==
  [queryKey : KeyKinds, sessionStorageKey : KeyKinds, localStorageKey : KeyKinds,
   validValues : ValidValuesKinds, validate : FunctionKinds,
   parse : FunctionKinds, serialize : FunctionKinds]

\* no component is constructed; only validateUseStoredStateOptions is called
OptionInit ==
  /\ app = {}
  /\ window = TRUE
  /\ history = History(1, Null)
  /\ url = << >>
  /\ sessionStorage = << >>
  /\ localStorage = << >>
  /\ activeQueryKeyInstances = << >>
  /\ hook = [i \in Ids |-> Unmounted]
  /\ last = [op |-> "none", kinds |-> CHOOSE k \in OptionKindSpace : TRUE,
             error |-> NoError]
  /\ validatorCalls = << >>
  /\ storeReads = << >>

\* the first statement of the hook body, called with options of kinds k
ValidateOptions(k) ==
  /\ last' = [op |-> "validate", kinds |-> k,
              error |-> validateUseStoredStateOptions(k)]
  /\ UNCHANGED <<app, window, history, url, sessionStorage, localStorage, activeQueryKeyInstances, hook,
                 validatorCalls, storeReads>>

OptionNext == \E k \in OptionKindSpace : ValidateOptions(k)

OptionSpec == OptionInit /\ [][OptionNext]_vars

(* ---------------------------- the default codec alone ------------------ *)

\* default values of every shape the default codec distinguishes
CodecDefaults ==
  {Bool(TRUE), Bool(FALSE)} \cup Numbers \cup {Str(""), Str("a")} \cup {Obj, Null}

\* raw strings: the boolean literals, numerals, the empty string, other text,
\* and what String() makes of an object
CodecRaws ==
  {"true", "false", "True", "0", "1", "2", "01", "", "a", "x", "NaN",
   "[object Object]"}

CodecInit ==
  /\ app = {}
  /\ window = TRUE
  /\ history = History(1, Null)
  /\ url = << >>
  /\ sessionStorage = << >>
  /\ localStorage = << >>
  /\ activeQueryKeyInstances = << >>
  /\ hook = [i \in Ids |-> Unmounted]
  /\ last = [op |-> "none", raw |-> "", value |-> Null, result |-> Null, text |-> ""]
  /\ validatorCalls = << >>
  /\ storeReads = << >>

\* parseValue applied to a raw string
ParseRaw(rawValue, defaultValue) ==
  /\ last' = [op |-> "parse", raw |-> rawValue, value |-> defaultValue,
              result |-> parseValue(QueryOnly(defaultValue), rawValue), text |-> ""]
  /\ UNCHANGED <<app, window, history, url, sessionStorage, localStorage, activeQueryKeyInstances, hook,
                 validatorCalls, storeReads>>

\* the initial state when the query adapter parsed a raw string and the other
\* adapters have no key
HydrateRaw(rawValue, defaultValue) ==
  /\ last' = [op |-> "hydrate", raw |-> rawValue, value |-> defaultValue,
              result |-> initialState(QueryOnly(defaultValue),
                                      parseValue(QueryOnly(defaultValue), rawValue),
                                      Null, Null),
              text |-> ""]
  /\ UNCHANGED <<app, window, history, url, sessionStorage, localStorage, activeQueryKeyInstances, hook,
                 validatorCalls, storeReads>>

\* serializeValue applied to a value, and parseValue applied to the result
SerializeState(value) ==
  /\ last' = [op |-> "serialize", raw |-> "", value |-> value,
              result |-> parseValue(QueryOnly(value),
                                    serializeValue(QueryOnly(value), value)),
              text |-> serializeValue(QueryOnly(value), value)]
  /\ UNCHANGED <<app, window, history, url, sessionStorage, localStorage, activeQueryKeyInstances, hook,
                 validatorCalls, storeReads>>

CodecNext ==
  \/ \E rawValue \in CodecRaws, defaultValue \in CodecDefaults :
       ParseRaw(rawValue, defaultValue)
  \/ \E rawValue \in CodecRaws, defaultValue \in CodecDefaults :
       HydrateRaw(rawValue, defaultValue)
  \/ \E value \in CodecDefaults : SerializeState(value)

CodecSpec == CodecInit /\ [][CodecNext]_vars

(* ---------------------------- properties -------------------------------- *)

Mounted(i) == hook[i].status = "mounted"

\* the raw string a store holds under an option key, if any
Holds(store, key, stringValue) ==
  key = Undefined \/ (key \in DOMAIN store /\ store[key] = stringValue)

\* every store the options configure holds stringValue
ConfiguredStoresHold(options, stringValue) ==
  /\ Holds(url, options.queryKey, stringValue)
  /\ Holds(sessionStorage, options.sessionStorageKey, stringValue)
  /\ Holds(localStorage, options.localStorageKey, stringValue)

\* the hydration candidate of one tier: the parsed raw string under the key
Candidate(options, store, key) ==
  IF key # Undefined /\ key \in DOMAIN store
    THEN parseValue(options, store[key])
    ELSE Null

\* the candidates in precedence order: query, session storage, local storage
Candidates(options) ==
  << Candidate(options, url, options.queryKey),
     Candidate(options, sessionStorage, options.sessionStorageKey),
     Candidate(options, localStorage, options.localStorageKey) >>

Qualifies(options, candidate) == candidate # Null /\ isValid(options, candidate)

\* the first qualifying candidate, or defaultValue when none qualifies
Resolved(options) ==
  LET c == Candidates(options)
      ok == {n \in 1..3 : Qualifies(options, c[n])}
  IN  IF ok = {} THEN options.defaultValue
      ELSE c[CHOOSE n \in ok : \A m \in ok : n <= m]

\* the first render of the instance named by last has been committed and its
\* effects have not run yet: the stores are as the render read them
JustRendered ==
  /\ last.op = "mount" /\ last.error = NoError
  /\ hook[last.id].phase = "effects"
  /\ hook[last.id].queryState # hook[last.id].state
     \/ hook[last.id].sessionStorageState # hook[last.id].state
     \/ hook[last.id].localStorageState # hook[last.id].state

\* C1: on activation the resolved initial value is the first candidate, in the
\* order query, session storage, local storage, that is non-null after parsing
\* and passes validation, and defaultValue when no candidate qualifies; an
\* unparseable or rejected candidate falls through like a missing one.
C1_HydrationPrecedence ==
  JustRendered =>
    /\ hook[last.id].state = Resolved(hook[last.id].options)
    /\ last.arg = hook[last.id].state

\* a mount whose query value was rejected by validValues and whose session
\* value ("01", parsed to 1) was taken instead of defaultValue 2
C1_Witness ==
  /\ JustRendered
  /\ hook[last.id].options.hasValidValues
  /\ hook[last.id].options.queryKey = "tab"
  /\ "tab" \in DOMAIN url /\ url["tab"] = "0"
  /\ "k" \in DOMAIN sessionStorage /\ sessionStorage["k"] = "01"
  /\ hook[last.id].state = Num(1)
  /\ hook[last.id].options.defaultValue = Num(2)

\* the instance named by last was mounted and everything it scheduled is done
SettledAfterMount ==
  /\ last.op = "mount" /\ last.error = NoError
  /\ Quiescent

\* C2: once an activation has settled after its mount, every configured store
\* holds serialize(resolved initial value), whichever tier it came from.
C2_PostHydrationSync ==
  SettledAfterMount =>
    /\ hook[last.id].state = last.arg
    /\ ConfiguredStoresHold(hook[last.id].options,
                            serializeValue(hook[last.id].options, last.arg))

\* settled after a mount that took 1 from the session value "01": the query
\* parameter and the session entry both hold "1" now
C2_Witness ==
  /\ SettledAfterMount
  /\ \A j \in Ids \ {last.id} : ~Mounted(j)
  /\ hook[last.id].options.queryKey = "tab"
  /\ hook[last.id].options.sessionStorageKey = "k"
  /\ last.arg = Num(1)
  /\ url["tab"] = "1" /\ sessionStorage["k"] = "1"

\* this step is a call of setState
SetStep == last' # last /\ last'.op = "set"

\* C3: setValue(candidate) with a candidate that fails validation changes
\* neither the runtime value nor the URL, the storages or the registry, and
\* raises no error.
C3_SetterRejection ==
  [][(SetStep /\ ~isValid(hook[last'.id].options, last'.arg)) =>
       /\ UNCHANGED <<url, sessionStorage, localStorage, activeQueryKeyInstances, hook>>
       /\ last'.error = NoError]_vars

\* a rejected setValue on a settled activation: the value is still the old one
C3_Witness ==
  /\ last.op = "set" /\ Mounted(last.id) /\ Quiescent
  /\ hook[last.id].options.hasValidValues
  /\ ~isValid(hook[last.id].options, last.arg)
  /\ hook[last.id].state # last.arg
  /\ ConfiguredStoresHold(hook[last.id].options, String(hook[last.id].state))

\* the last call was a valid setValue made while nothing else was pending, and
\* everything it scheduled is done
SettledAfterSet ==
  /\ last.op = "set" /\ last.quiet /\ Mounted(last.id)
  /\ isValid(hook[last.id].options, last.arg)
  /\ Quiescent

SetTookEffect ==
  /\ hook[last.id].state = last.arg
  /\ ConfiguredStoresHold(hook[last.id].options,
                          serializeValue(hook[last.id].options, last.arg))

Consumer(i, k) == Mounted(i) /\ hook[i].registered = k

\* this step deactivates instance i as a consumer of k (unmount or key change)
Deactivates(i, k) == Consumer(i, k) /\ ~(Consumer(i, k))'

\* C5: a deactivation deletes query parameter k only if it leaves no active
\* consumer of k; deactivating one consumer while another consumer of k is
\* still active leaves k in the URL.
C5_ReferenceCounting ==
  [][\A k \in QueryKeys :
       /\ (k \in DOMAIN url /\ k \notin DOMAIN url') =>
            /\ \E i \in Ids : Deactivates(i, k)
            /\ \A j \in Ids : ~(Consumer(j, k))'
       /\ \A i \in Ids :
            (Deactivates(i, k) /\ \E j \in Ids \ {i} : Consumer(j, k) /\ (Consumer(j, k))') =>
              (k \in DOMAIN url /\ k \in DOMAIN url')]_vars

\* one of two consumers of "tab" was unmounted and the parameter is still there
C5_Witness ==
  /\ last.op = "unmount" /\ last.options.queryKey = "tab"
  /\ \E j \in Ids : Consumer(j, "tab")
  /\ "tab" \in DOMAIN url

\* C6: when the last active consumer of k is deactivated, parameter k is
\* deleted from the URL and the registry entry of k is deleted.
C6_LastConsumerRemoves ==
  [][\A k \in QueryKeys : \A i \in Ids :
       (Deactivates(i, k) /\ \A j \in Ids \ {i} : ~Consumer(j, k)) =>
         (k \notin DOMAIN url' /\ k \notin DOMAIN activeQueryKeyInstances')]_vars

\* the only hook bound to "tab" was unmounted: no hook is left, "tab" is gone
C6_Witness ==
  /\ last.op = "unmount" /\ last.options.queryKey = "tab"
  /\ \A j \in Ids : ~Mounted(j)
  /\ "tab" \notin DOMAIN url
  /\ "tab" \notin DOMAIN activeQueryKeyInstances

C8_UnmountKeepsStorage ==
  [][(\E i \in Ids : Mounted(i) /\ ~(Mounted(i))') =>
       UNCHANGED <<sessionStorage, localStorage>>]_vars

\* an unmounted hook with a query key and a session key: the parameter is
\* gone, the session entry still holds the serialized value
C8_Witness ==
  /\ last.op = "unmount"
  /\ last.options.queryKey = "tab" /\ last.options.sessionStorageKey = "k"
  /\ \A j \in Ids : ~Mounted(j)
  /\ "tab" \notin DOMAIN url
  /\ "k" \in DOMAIN sessionStorage /\ sessionStorage["k"] = "2"

BothStorageKeys(options) ==
  options.sessionStorageKey # Undefined /\ options.localStorageKey # Undefined

RuleViolated(k) ==
  << k.queryKey = "undefined" /\ k.sessionStorageKey = "undefined"
       /\ k.localStorageKey = "undefined",
     k.sessionStorageKey # "undefined" /\ k.localStorageKey # "undefined",
     k.queryKey \notin {"undefined", "string"},
     k.sessionStorageKey \notin {"undefined", "string"},
     k.localStorageKey \notin {"undefined", "string"},
     k.validValues # "undefined" /\ k.validate # "undefined",
     k.validValues \notin {"undefined", "array"},
     k.validate \notin {"undefined", "function"},
     (k.parse = "undefined" /\ k.serialize # "undefined")
       \/ (k.parse # "undefined" /\ k.serialize = "undefined"),
     k.parse \notin {"undefined", "function"},
     k.serialize \notin {"undefined", "function"} >>

RuleError ==
  << ErrNoKey, ErrBothStorageKeys, ErrQueryKeyType, ErrSessionKeyType,
     ErrLocalKeyType, ErrBothValidation, ErrValidValuesType, ErrValidateType,
     ErrParseSerialize, ErrParseType, ErrSerializeType >>

CallsFor(source) ==
  {n \in DOMAIN validatorCalls : validatorCalls[n].source = source}

\* this step is the first render of an instance
MountStep == last' # last /\ last'.op = "mount"

\* C12: the validation strategy is never invoked with null; during hydration it
\* is applied only to adapter values that are non-null after parsing, so a store
\* whose value is missing or unparseable causes no call for that store.
C12_ValidatorNeverNull ==
  [][/\ \A n \in DOMAIN validatorCalls' : validatorCalls'[n].value # Null
     /\ MountStep =>
          LET options == IF last'.error = NoError
                           THEN hook'[last'.id].options ELSE last'.options
          IN  /\ Candidate(options, url, options.queryKey) = Null
                   => (CallsFor("query"))' = {}
              /\ Candidate(options, sessionStorage, options.sessionStorageKey) = Null
                   => (CallsFor("sessionStorage"))' = {}
              /\ Candidate(options, localStorage, options.localStorageKey) = Null
                   => (CallsFor("localStorage"))' = {}]_vars

\* a first render with validate: the query parameter holds text that is not a
\* number, there is no session key, and validate was called with the local
\* value 1 and with defaultValue 2 only
C12_Witness ==
  /\ last.op = "mount" /\ last.error = NoError
  /\ hook[last.id].options.validate = "atLeastOne"
  /\ "page" \in DOMAIN url /\ url["page"] = "x"
  /\ validatorCalls = << ValidatorCall("localStorage", Num(1)),
                         ValidatorCall("defaultValue", Num(2)) >>

\* what Number() makes of the raw strings of CodecRaws: the numerals, the
\* numeral with a leading zero and the empty string are numbers, the rest NaN
NumberTable ==
  [rawValue \in CodecRaws |->
     CASE rawValue = "0" -> Num(0)
       [] rawValue = "1" -> Num(1)
       [] rawValue = "2" -> Num(2)
       [] rawValue = "01" -> Num(1)
       [] rawValue = "" -> Num(0)
       [] OTHER -> NaN]

\* C13: the default codec. A boolean default parses "true" and "false" and
\* nothing else; a number default parses to Number(raw) unless that is NaN; a
\* string default parses every raw string to itself; with any other default
\* every raw string is unparseable and hydration resolves to defaultValue.
\* Serialization is String(value).
C13_DefaultCodec ==
  /\ last.op = "parse" =>
       CASE last.value.t = "boolean" ->
              /\ (last.raw = "true") => last.result = Bool(TRUE)
              /\ (last.raw = "false") => last.result = Bool(FALSE)
              /\ (last.raw \notin {"true", "false"}) => last.result = Null
         [] last.value.t = "number" ->
              /\ (NumberTable[last.raw] = NaN) => last.result = Null
              /\ (NumberTable[last.raw] # NaN) => last.result = NumberTable[last.raw]
         [] last.value.t = "string" -> last.result = Str(last.raw)
         [] OTHER -> last.result = Null
  /\ (last.op = "hydrate" /\ last.value.t \notin {"boolean", "number", "string"}) =>
       last.result = last.value
  /\ last.op = "serialize" =>
       last.text = CASE last.value = Bool(TRUE) -> "true"
                     [] last.value = Bool(FALSE) -> "false"
                     [] last.value.t = "number" -> Digits[last.value.n + 1]
                     [] last.value.t = "string" -> last.value.s
                     [] last.value = Obj -> "[object Object]"
                     [] OTHER -> "null"

\* hydration with an object default from the raw string that serializing the
\* object produced: unparseable, so the result is the default
C13_Witness ==
  /\ last.op = "hydrate" /\ last.value = Obj
  /\ last.raw = "[object Object]"
  /\ last.result = Obj

\* C14: without a window every adapter read returns null, every adapter write
\* is a no-op, no consumer is registered and nothing is raised for the missing
\* window: a first render fails only as its options make it fail, and
\* otherwise resolves to defaultValue.
C14_NoWindow ==
  [][~window =>
       /\ UNCHANGED <<url, sessionStorage, localStorage, activeQueryKeyInstances>>
       /\ activeQueryKeyInstances' = << >>
       /\ \A i \in Ids : hook'[i].registered = NullKey
       /\ MountStep =>
            /\ last'.error # NoError =>
                 /\ last'.error = RenderError(last'.options)
                 /\ last'.error \in {ErrBothStorageKeys, ErrNoKey, ErrDefaultValue}
            /\ last'.error = NoError =>
                 /\ hook'[last'.id].queryState = Null
                 /\ hook'[last'.id].sessionStorageState = Null
                 /\ hook'[last'.id].localStorageState = Null
                 /\ hook'[last'.id].state = hook'[last'.id].options.defaultValue
                 /\ last'.arg = hook'[last'.id].state]_vars

\* without a window: a hook with a query key and a session key was mounted,
\* resolved to its default 2, was set to 1 and has settled; no store holds
\* anything and nothing is registered
C14_Witness ==
  /\ ~window
  /\ last.op = "set" /\ Mounted(last.id) /\ Quiescent
  /\ hook[last.id].options.queryKey = "tab"
  /\ hook[last.id].options.sessionStorageKey = "k"
  /\ last.prev = Num(2) /\ hook[last.id].state = Num(1)
  /\ url = << >> /\ sessionStorage = << >> /\ activeQueryKeyInstances = << >>

\* the lookups the latest step made in one store
ReadsOf(source) == {n \in DOMAIN storeReads : storeReads[n].source = source}

\* this step runs the passive effects of instance i
EffectsStep(i) == Mounted(i) /\ hook[i].phase = "effects" /\ hook'[i].phase = "idle"

\* C15: a store whose key is omitted is never read and never written. On a
\* first render its adapter value is null and no lookup (so no parse) is made
\* for it; the effects of an instance do not change a store the instance has
\* no key for; only query keys of registered instances are in the registry, so
\* an adapter with a null key or a storage source never registers, and the
\* deactivation of an instance without a query registration leaves the URL as
\* it is.
C15_OmittedKeyUntouched ==
  [][/\ (MountStep /\ last'.error = NoError) =>
          LET h == hook'[last'.id]
          IN  /\ h.options.queryKey = Undefined =>
                   (h.queryState = Null /\ (ReadsOf("query"))' = {})
              /\ h.options.sessionStorageKey = Undefined =>
                   (h.sessionStorageState = Null /\ (ReadsOf("sessionStorage"))' = {})
              /\ h.options.localStorageKey = Undefined =>
                   (h.localStorageState = Null /\ (ReadsOf("localStorage"))' = {})
     /\ \A i \in Ids : EffectsStep(i) =>
          /\ hook[i].options.sessionStorageKey = Undefined => UNCHANGED sessionStorage
          /\ hook[i].options.localStorageKey = Undefined => UNCHANGED localStorage
          /\ (hook[i].options.queryKey = Undefined /\ hook[i].registered = NullKey) =>
               (UNCHANGED <<url, activeQueryKeyInstances>>
                  /\ hook'[i].registered = NullKey)
     /\ \A k \in DOMAIN activeQueryKeyInstances' :
          /\ k \in QueryKeys
          /\ \A i \in activeQueryKeyInstances'[k] : hook'[i].registered = k
     /\ \A i \in Ids : (Mounted(i) /\ ~(Mounted(i))' /\ hook[i].registered = NullKey) =>
          UNCHANGED <<url, activeQueryKeyInstances>>]_vars

\* a hook with a session key only was set to 2 and then unmounted: the session
\* entry holds "2", the local entry under the same name and the query
\* parameter still hold what they held before the hook was mounted
C15_Witness ==
  /\ last.op = "unmount"
  /\ last.options.queryKey = Undefined /\ last.options.localStorageKey = Undefined
  /\ last.options.sessionStorageKey = "k"
  /\ "k" \in DOMAIN sessionStorage /\ sessionStorage["k"] = "2"
  /\ "k" \in DOMAIN localStorage /\ localStorage["k"] = "1"
  /\ "page" \in DOMAIN url /\ url["page"] = "x"
  /\ activeQueryKeyInstances = << >>

\* the options a first render was called with
MountOptions == IF last.error = NoError THEN hook[last.id].options ELSE last.options

\* the first candidate that is a value (parse neither returned null nor threw)
\* and passes validation, or defaultValue
ResolvedCatching(options) ==
  LET c == Candidates(options)
      ok == {n \in 1..3 : c[n] \notin {Null, Thrown} /\ isValid(options, c[n])}
  IN  IF ok = {} THEN options.defaultValue
      ELSE c[CHOOSE n \in ok : \A m \in ok : n <= m]

\* C16 (as stated): a parse function that throws while hydrating a stored raw
\* value counts as no usable stored value: a first render with well-formed
\* options and a valid default raises nothing, and its value is the first
\* usable candidate of the remaining tiers, or defaultValue.
C16_ParseThrowFallsThrough ==
  [][(MountStep /\ RenderError(MountOptions') = NoError) =>
       /\ last'.error = NoError
       /\ hook'[last'.id].state = ResolvedCatching(MountOptions')]_vars

\* C17 (as stated): in every state of a constructed activation the exposed
\* value is non-null and satisfies the validation strategy of the latest
\* render, after any sequence of hydration, setValue calls and re-renders,
\* re-renders with a different validValues / validate included.
C17_ValueAlwaysValid ==
  \A i \in Ids :
    Mounted(i) =>
      /\ hook[i].state # Null
      /\ isValid(hook[i].options, hook[i].state)

\* C18: when the query key of a mounted instance changes from k1 to k2 on a
\* re-render, its effects release the registration for k1 (deleting parameter
\* k1 and the registry entry if it was the last consumer of k1, leaving both
\* to the other consumers otherwise) and register it for k2; afterwards it is
\* registered under k2 and not under k1, and its unmount removes parameter k2
\* when it is the last consumer of k2: the cleanup belongs to the current key.
C18_KeyChange ==
  [][\A i \in Ids :
       LET k1 == hook[i].registered
           k2 == AdapterKey(hook[i].options.queryKey)
           others(k) == {j \in Ids \ {i} : Consumer(j, k)}
       IN  /\ (EffectsStep(i) /\ k1 # NullKey /\ k2 # NullKey /\ k1 # k2) =>
                /\ hook'[i].registered = k2
                /\ k2 \in DOMAIN activeQueryKeyInstances'
                /\ i \in activeQueryKeyInstances'[k2]
                /\ k2 \in DOMAIN url'
                /\ url'[k2] = serializeValue(hook[i].options, hook[i].state)
                /\ \A k \in DOMAIN activeQueryKeyInstances' \ {k2} :
                     i \notin activeQueryKeyInstances'[k]
                /\ others(k1) = {} =>
                     (k1 \notin DOMAIN url' /\ k1 \notin DOMAIN activeQueryKeyInstances')
                /\ others(k1) # {} =>
                     /\ k1 \in DOMAIN activeQueryKeyInstances'
                     /\ activeQueryKeyInstances'[k1] = others(k1)
                     /\ k1 \in DOMAIN url /\ k1 \in DOMAIN url' /\ url'[k1] = url[k1]
           /\ (Mounted(i) /\ ~(Mounted(i))' /\ last'.op = "unmount") =>
                /\ k1 = k2
                /\ (k2 # NullKey /\ others(k2) = {}) =>
                     (k2 \notin DOMAIN url' /\ k2 \notin DOMAIN activeQueryKeyInstances')]_vars

\* an instance registered for "tab" was re-rendered with query key "page" and
\* has settled: it is registered for "page" only, "page" holds its value, and
\* "tab" is gone from the URL and from the registry
C18_Witness ==
  /\ last.op = "rerender" /\ last.error = NoError /\ last.prev = Str("tab")
  /\ Quiescent /\ Mounted(last.id)
  /\ hook[last.id].registered = "page"
  /\ activeQueryKeyInstances = [k \in {"page"} |-> {last.id}]
  /\ "tab" \notin DOMAIN url
  /\ "page" \in DOMAIN url /\ url["page"] = String(hook[last.id].state)

\* instance j is in the registry's set for key k
Registered(registry, j, k) == k \in DOMAIN registry /\ j \in registry[k]

\* C19: calling the cleanup of a query adapter twice for the same activation,
\* or when the registry has no entry for its key, removes no other consumer's
\* registration, does not remove the query parameter while another consumer
\* of the key is registered, changes nothing but the caller's registration and
\* (as last consumer) its key's parameter, and a second call changes nothing.
C19_CleanupIdempotent ==
  [][last'.op = "cleanup" =>
       LET i == last'.id
           k == last'.key
           again == RegistryCleanup(i, k, activeQueryKeyInstances', url')
       IN  /\ \A j \in Ids \ {i} : \A q \in RegistryKeys :
                Registered(activeQueryKeyInstances', j, q)
                  <=> Registered(activeQueryKeyInstances, j, q)
           /\ ~Registered(activeQueryKeyInstances', i, k)
           /\ \A q \in RegistryKeys \ {k} :
                Registered(activeQueryKeyInstances', i, q)
                  <=> Registered(activeQueryKeyInstances, i, q)
           /\ (\E j \in Ids \ {i} : Registered(activeQueryKeyInstances, j, k))
                => url' = url
           /\ (k \notin DOMAIN activeQueryKeyInstances) =>
                UNCHANGED <<url, activeQueryKeyInstances>>
           /\ url' \in {url, Remove(url, k)}
           /\ \A q \in DOMAIN activeQueryKeyInstances' : activeQueryKeyInstances'[q] # {}
           /\ again.registry = activeQueryKeyInstances'
           /\ again.url = url'
           /\ last'.again => UNCHANGED <<url, activeQueryKeyInstances>>]_vars

\* the cleanup of instance 1 for "tab" was called twice in a row while
\* instance 2 is registered for "tab": instance 2 is still registered and the
\* parameter is still there
C19_Witness ==
  /\ last.op = "cleanup" /\ last.again /\ last.id = 1 /\ last.key = "tab"
  /\ activeQueryKeyInstances = [k \in {"tab"} |-> {2}]
  /\ "tab" \in DOMAIN url

\* values of the three primitive types, among them strings that look like a
\* boolean or a number
RoundTripValues ==
  Booleans \cup Numbers \cup Strings \cup {Str("true"), Str("0"), Str("01"), Str("x")}

\* the store of a tier holds the raw string stringValue under the option key
Stored(store, key, stringValue) ==
  key # Undefined /\ key \in DOMAIN store /\ store[key] = stringValue

\* the highest tier of the options that has an entry in its store holds the
\* raw string stringValue
FirstEntryIs(options, stringValue) ==
  \/ Stored(url, options.queryKey, stringValue)
  \/ /\ ~(options.queryKey # Undefined /\ options.queryKey \in DOMAIN url)
     /\ Stored(sessionStorage, options.sessionStorageKey, stringValue)
  \/ /\ ~(options.queryKey # Undefined /\ options.queryKey \in DOMAIN url)
     /\ ~(options.sessionStorageKey # Undefined
            /\ options.sessionStorageKey \in DOMAIN sessionStorage)
     /\ Stored(localStorage, options.localStorageKey, stringValue)

\* C20: with the default codec parse(serialize(x)) = x for every boolean,
\* every number 0..MaxNum and every string x of the type of defaultValue; so
\* an activation that reads a store holding serialize(v) gets v as that
\* adapter's value, and resolves to v when v passes its validation and the
\* store is the highest tier that has an entry.
C20_RoundTrip ==
  [][/\ \A x \in RoundTripValues :
          parsePrimitiveState(String(x), x) = x
     /\ (MountStep /\ last'.error = NoError /\ hook'[last'.id].options.parse = Undefined) =>
          LET h == hook'[last'.id]
              options == h.options
          IN  \A v \in StateValues(options.defaultValue) :
                /\ Stored(url, options.queryKey, serializeValue(options, v))
                     => h.queryState = v
                /\ Stored(sessionStorage, options.sessionStorageKey,
                          serializeValue(options, v))
                     => h.sessionStorageState = v
                /\ Stored(localStorage, options.localStorageKey,
                          serializeValue(options, v))
                     => h.localStorageState = v
                /\ (FirstEntryIs(options, serializeValue(options, v))
                      /\ isValid(options, v))
                     => h.state = v]_vars

\* a boolean hook with default false was just mounted with value true: it read
\* "true" from local storage, where only an earlier setValue(true) can have put
\* it, the query parameter having been removed by the unmount in between
C20_Witness ==
  /\ last.op = "mount" /\ last.error = NoError
  /\ hook[last.id].phase = "effects" /\ hook[last.id].registered = NullKey
  /\ hook[last.id].options.defaultValue = Bool(FALSE)
  /\ hook[last.id].options.localStorageKey = "k"
  /\ "flag" \notin DOMAIN url
  /\ "k" \in DOMAIN localStorage /\ localStorage["k"] = "true"
  /\ hook[last.id].localStorageState = Bool(TRUE)
  /\ hook[last.id].state = Bool(TRUE)
  /\ \A j \in Ids \ {last.id} : ~Mounted(j)

\* the query parameters other than key are the same before and after the step
OtherParamsKept(key) ==
  \A q \in RegistryKeys \ {key} :
    /\ (q \in DOMAIN url) <=> (q \in DOMAIN url')
    /\ q \in DOMAIN url => url'[q] = url[q]

\* C21: a write of query parameter k by an adapter's setter, and the removal of
\* k by the cleanup of the last consumer, replace the current history entry:
\* the history has as many entries as before, the state object of the current
\* entry is the one it had, and every other query parameter is as it was.
C21_ReplaceInPlace ==
  [][/\ last'.op = "write" =>
          /\ history'.length = history.length
          /\ history'.state = history.state
          /\ last'.key \in DOMAIN url'
          /\ OtherParamsKept(last'.key)
     /\ last'.op = "cleanup" =>
          /\ history'.length = history.length
          /\ history'.state = history.state
          /\ url' \in {url, Remove(url, last'.key)}
          /\ OtherParamsKept(last'.key)]_vars

\* the last consumer of "tab" was cleaned up in a history of two entries whose
\* current entry has a state object: "tab" is gone, "page" is still "0", the
\* history is as it was
C21_Witness ==
  /\ last.op = "cleanup" /\ last.key = "tab" /\ ~last.again
  /\ history = History(2, Str("a"))
  /\ "tab" \notin DOMAIN url
  /\ "page" \in DOMAIN url /\ url["page"] = "0"
  /\ activeQueryKeyInstances = << >>

\* C22: the registry has an entry for key k exactly while some mounted
\* instance is registered for k, and the entry is the set of those instances:
\* no entry is mapped to the empty set, the first registration creates the
\* entry and the deregistration of the last consumer deletes it.
C22_RegistryShape ==
  /\ \A k \in DOMAIN activeQueryKeyInstances :
       /\ activeQueryKeyInstances[k] # {}
       /\ activeQueryKeyInstances[k] = {i \in Ids : Consumer(i, k)}
  /\ \A k \in QueryKeys :
       (\E i \in Ids : Consumer(i, k)) => k \in DOMAIN activeQueryKeyInstances

\* the only consumer of "page" was unmounted while a hook without a query key
\* stays mounted: the registry has no entry at all
C22_Witness ==
  /\ last.op = "unmount" /\ last.options.queryKey = "page"
  /\ \E j \in Ids : Mounted(j) /\ hook[j].options.queryKey = Undefined
  /\ activeQueryKeyInstances = << >>

\* the errors of the configuration: those of the option rules and that of the
\* default value
ConfigurationErrors == {RuleError[n] : n \in 1..11} \cup {ErrDefaultValue}

\* C23 (as stated): a first render that ends in a configuration error (an
\* option rule or an invalid defaultValue) has looked up no store and written
\* no store.
C23_FailFastBeforeStoreAccess ==
  [][(MountStep /\ last'.error \in ConfigurationErrors) =>
       /\ storeReads' = << >>
       /\ UNCHANGED <<url, sessionStorage, localStorage>>]_vars

\* C24: a first render that raises a configuration error leaves the URL, the
\* history, session storage, local storage and the registry exactly as they
\* were and constructs no instance: nothing is written back and nothing is
\* registered.
C24_NoPartialConstruction ==
  [][(MountStep /\ last'.error \in ConfigurationErrors) =>
       /\ UNCHANGED <<url, history, sessionStorage, localStorage, activeQueryKeyInstances>>
       /\ UNCHANGED hook
       /\ hook'[last'.id].status = "unmounted"]_vars

\* a first render failed on its default value 0 while the URL holds the valid
\* value 2 and session storage holds "01": both are still there, and the other
\* instance is still the only registered consumer of "tab"
C24_Witness ==
  /\ last.op = "mount" /\ last.error = ErrDefaultValue
  /\ last.options.queryKey = "tab" /\ last.options.sessionStorageKey = "k"
  /\ ~Mounted(last.id)
  /\ "tab" \in DOMAIN url /\ url["tab"] = "2"
  /\ "k" \in DOMAIN sessionStorage /\ sessionStorage["k"] = "01"
  /\ \E j \in Ids \ {last.id} : activeQueryKeyInstances = [k \in {"tab"} |-> {j}]

\* this step is a re-render of an instance by its owner
RerenderStep == last' # last /\ last'.op = "rerender"

\* C25 (as stated): after the first render the default value is not validated
\* again: no later render and no setValue applies the validation strategy to
\* defaultValue, and a re-render whose validValues / validate exclude
\* defaultValue raises no error.
C25_DefaultValidatedOnce ==
  [][/\ RerenderStep => last'.error # ErrDefaultValue
     /\ ~MountStep => (CallsFor("defaultValue"))' = {}]_vars

\* the two option objects differ in a key or in the validation options
Reconfigured(old, new) ==
  \/ old.queryKey # new.queryKey
  \/ old.sessionStorageKey # new.sessionStorageKey
  \/ old.localStorageKey # new.localStorageKey
  \/ old.hasValidValues # new.hasValidValues
  \/ old.validValues # new.validValues
  \/ old.validate # new.validate

\* C26 (as stated): a re-render of a mounted instance with a different key or
\* different validation options resolves the runtime value again, by
\* hydration precedence from the stores under the new keys: a valid value
\* stored under the new key wins over the previous runtime value.
C26_RehydrationOnReconfiguration ==
  [][(/\ RerenderStep /\ last'.error = NoError
      /\ Reconfigured(hook[last'.id].options, hook'[last'.id].options)) =>
       hook'[last'.id].state = Resolved(hook'[last'.id].options)]_vars

\* this step is the render that applies the queued update of instance i
ApplyStep(i) ==
  Mounted(i) /\ hook[i].update # NoUpdate /\ hook'[i].update = NoUpdate

\* C27: within an update the runtime value is replaced before any store is
\* written. The call of setValue and the render that replaces the runtime
\* value write no store; the stores are written by the effects of an
\* instance, with the runtime value that instance already has; so no store
\* holds the candidate because of the update while the runtime value is still
\* the previous one.
C27_ValueBeforeStores ==
  [][/\ SetStep => UNCHANGED <<url, sessionStorage, localStorage>>
     /\ \A i \in Ids :
          /\ ApplyStep(i) =>
               /\ hook'[i].state = hook[i].update
               /\ UNCHANGED <<url, sessionStorage, localStorage>>
          /\ EffectsStep(i) =>
               /\ hook[i].update = NoUpdate
               /\ hook'[i].state = hook[i].state
               /\ Holds(url', hook[i].options.queryKey,
                        serializeValue(hook[i].options, hook[i].state))
               /\ Holds(sessionStorage', hook[i].options.sessionStorageKey,
                        serializeValue(hook[i].options, hook[i].state))
               /\ Holds(localStorage', hook[i].options.localStorageKey,
                        serializeValue(hook[i].options, hook[i].state))
     /\ (url' # url \/ sessionStorage' # sessionStorage \/ localStorage' # localStorage) =>
          \E i \in Ids : EffectsStep(i) \/ (Mounted(i) /\ ~(Mounted(i))')]_vars

\* setValue(1) on a hook with value 2, a query key and a session key: the
\* render has replaced the runtime value by 1 and the effects have not run
\* yet, so the URL and session storage still hold "2"
C27_Witness ==
  /\ last.op = "set" /\ last.prev = Num(2) /\ last.arg = Num(1)
  /\ Mounted(last.id)
  /\ hook[last.id].state = Num(1) /\ hook[last.id].phase = "effects"
  /\ hook[last.id].options.queryKey = "tab"
  /\ hook[last.id].options.sessionStorageKey = "k"
  /\ "tab" \in DOMAIN url /\ url["tab"] = "2"
  /\ "k" \in DOMAIN sessionStorage /\ sessionStorage["k"] = "2"

\* C28 (as stated): a valid setValue(candidate) has written every configured
\* store when it returns: right after the call each configured store holds
\* serialize(candidate).
C28_WritesBeforeReturn ==
  [][(SetStep /\ isValid(hook[last'.id].options, last'.arg)) =>
       LET options == hook[last'.id].options
           stringValue == serializeValue(options, last'.arg)
       IN  /\ Holds(url', options.queryKey, stringValue)
           /\ Holds(sessionStorage', options.sessionStorageKey, stringValue)
           /\ Holds(localStorage', options.localStorageKey, stringValue)]_vars

\* C29 (as stated): two mounted instances are consumers of the same query key
\* and each has made a valid setValue, the second one while the update of the
\* first was still queued and with a candidate that differs from its own
\* runtime value: once everything scheduled is done, the query parameter
\* holds serialize(candidate) of the more recent call.
C29_LastWriteWins ==
  \A k \in QueryKeys :
    (/\ last.op = "set" /\ last.batched /\ last.prev # last.arg
     /\ Mounted(last.id) /\ Quiescent
     /\ isValid(hook[last.id].options, last.arg)
     /\ Consumer(last.id, k)
     /\ \E j \in Ids \ {last.id} : Consumer(j, k)) =>
      (k \in DOMAIN url /\ url[k] = serializeValue(hook[last.id].options, last.arg))

C31_StrictModeMount ==
  [][\A i \in Ids :
       (/\ EffectsStep(i)
        /\ hook[i].registered = NullKey
        /\ hook[i].options.queryKey # Undefined) =>
         LET k == hook[i].options.queryKey
         IN  /\ k \in DOMAIN url'
             /\ url'[k] = serializeValue(hook[i].options, hook'[i].state)
             /\ hook'[i].registered = k
             /\ {kk \in DOMAIN activeQueryKeyInstances' :
                   i \in activeQueryKeyInstances'[kk]} = {k}]_vars

\* a single query-only hook mounted under StrictMode on a URL without the
\* parameter has settled: "tab" holds the default value and the registry
\* entry of "tab" holds this activation alone
C31_Witness ==
  /\ last.op = "mount" /\ last.error = NoError /\ last.arg = Str("a")
  /\ app = StrictApp
  /\ Mounted(last.id) /\ Quiescent
  /\ \A j \in Ids \ {last.id} : ~Mounted(j)
  /\ hook[last.id].options.sessionStorageKey = Undefined
  /\ url = [k \in {"tab"} |-> "a"]
  /\ activeQueryKeyInstances = [k \in {"tab"} |-> {last.id}]

\* C32: a hydrated value that is falsy is a value, not a missing one: false,
\* 0 and the empty string read from a store become the initial state even
\* though defaultValue differs, and defaultValue is taken only when the parsed
\* candidate is null (an unparseable boolean or number).
C32_FalsyHydratedValues ==
  last.op = "hydrate" =>
    /\ (last.value.t = "boolean" /\ last.raw = "false") => last.result = Bool(FALSE)
    /\ (last.value.t = "number" /\ last.raw = "0") => last.result = Num(0)
    /\ (last.value.t = "string" /\ last.raw = "") => last.result = Str("")
    /\ (last.value.t = "boolean" /\ last.raw \notin {"true", "false"}) =>
         last.result = last.value
    /\ (last.value.t = "number" /\ NumberTable[last.raw] = NaN) =>
         last.result = last.value

\* hydration with defaultValue true from the raw string "false": the initial
\* state is false
C32_Witness ==
  /\ last.op = "hydrate"
  /\ last.value = Bool(TRUE) /\ last.raw = "false"
  /\ last.result = Bool(FALSE)

\* every entry of the store except the one under key is as it was, and no
\* entry was added under another key
KeptExcept(store, after, key) ==
  /\ DOMAIN after \subseteq DOMAIN store \cup {key}
  /\ \A k \in DOMAIN store \ {key} : k \in DOMAIN after /\ after[k] = store[k]

\* C33: after a re-render with a new query key and a new session storage key
\* the hook writes under the new keys only. The effects of that re-render
\* remove the old query parameter (no other hook consumes it) and write the
\* runtime value under the new keys; from then on every write of the hook
\* goes to its current keys, so the entry under the old session storage key
\* keeps the last value written before the change; and a valid setValue that
\* has taken effect is under the new keys.
C33_WritesUnderNewKeysOnly ==
  [][/\ \A i \in Ids :
          EffectsStep(i) =>
            LET options == hook[i].options
                old == hook[i].registered
                stringValue == serializeValue(options, hook[i].state)
            IN  /\ KeptExcept(sessionStorage, sessionStorage', options.sessionStorageKey)
                /\ DOMAIN url' \subseteq DOMAIN url \cup {options.queryKey}
                /\ \A k \in DOMAIN url \ {options.queryKey} :
                     (k # old \/ \E j \in Ids \ {i} : Consumer(j, old)) =>
                       (k \in DOMAIN url' /\ url'[k] = url[k])
                /\ Holds(url', options.queryKey, stringValue)
                /\ Holds(sessionStorage', options.sessionStorageKey, stringValue)
                /\ (/\ old \notin {NullKey, options.queryKey}
                    /\ \A j \in Ids \ {i} : ~Consumer(j, old)) =>
                     old \notin DOMAIN url'
     /\ (last.op = "rerender" /\ last.error = NoError /\ EffectsStep(last.id)) =>
          /\ hook[last.id].options = last.options
          /\ Holds(url', last.options.queryKey, String(hook[last.id].state))
          /\ Holds(sessionStorage', last.options.sessionStorageKey,
                   String(hook[last.id].state))
     /\ sessionStorage' # sessionStorage => \E i \in Ids : EffectsStep(i)
     /\ (/\ SettledAfterSet /\ last.prev # last.arg
         /\ \A j \in Ids \ {last.id} : ~Mounted(j))' =>
          /\ SetTookEffect'
          /\ DOMAIN url' = {hook'[last'.id].options.queryKey}]_vars

\* a hook mounted with the keys "first" wrote "a", was re-rendered with the
\* keys "second" and then set to "": the URL has the parameter "second" only,
\* session storage still holds "a" under "first" and "" under "second"
C33_Witness ==
  /\ SettledAfterSet
  /\ last.prev = Str("a") /\ last.arg = Str("")
  /\ \A j \in Ids \ {last.id} : ~Mounted(j)
  /\ hook[last.id].options = RekeySecond
  /\ url = [k \in {"second"} |-> ""]
  /\ sessionStorage = [k \in {"first", "second"} |-> IF k = "first" THEN "a" ELSE ""]

\* the instances the registry holds under key k
RegistryEntry(k) ==
  IF k \in DOMAIN activeQueryKeyInstances THEN activeQueryKeyInstances[k] ELSE {}

\* C34: registry accuracy. With a window, whenever no effects are pending the
\* registry maps every key k to exactly the mounted instances whose query
\* adapter is bound to k by the latest render; a mounted instance with a
\* query key is under exactly one key, an unmounted instance and an instance
\* without a query key are under none.
C34_RegistryAccuracy ==
  (window /\ \A i \in Ids : hook[i].phase # "effects") =>
    /\ \A k \in ({o.queryKey : o \in app} \ {Undefined}) \cup DOMAIN activeQueryKeyInstances :
         RegistryEntry(k) = {i \in Ids : Mounted(i) /\ hook[i].options.queryKey = k}
    /\ \A i \in Ids :
         Cardinality({k \in DOMAIN activeQueryKeyInstances :
                        i \in activeQueryKeyInstances[k]}) =
           IF Mounted(i) /\ hook[i].options.queryKey # Undefined THEN 1 ELSE 0

\* one of two hooks bound to "tab" was re-rendered with the query key "page",
\* the other one was then unmounted, and every effect has run: the registry
\* holds the remaining instance under "page" and has no entry for "tab"
C34_Witness ==
  /\ last.op = "unmount" /\ last.options.queryKey = "tab"
  /\ ~Mounted(last.id)
  /\ \E j \in Ids \ {last.id} :
       /\ Mounted(j) /\ hook[j].phase = "idle"
       /\ hook[j].options.queryKey = "page"
       /\ activeQueryKeyInstances = [k \in {"page"} |-> {j}]
  /\ "tab" \notin DOMAIN url

\* the internal steps instance i has ahead of it at most: a queued state
\* update is rendered (its effects follow), pending effects write the stores
\* and, when an adapter state differs from the runtime value, queue an adapter
\* update, whose render is followed by effects that find nothing stale
StepsAhead(i) ==
  LET h == hook[i]
      stale == \/ h.queryState # h.state
               \/ h.sessionStorageState # h.state
               \/ h.localStorageState # h.state
  IN  (IF h.update # NoUpdate THEN 4 ELSE 0)
      + (IF h.phase = "effects" THEN (IF stale THEN 3 ELSE 1) ELSE 0)
      + (IF h.adapterUpdate # NoUpdate THEN 2 ELSE 0)

\* this step is a render or an effect run, not a call by the application
InternalStep ==
  \E i \in Ids :
    \/ EffectsStep(i)
    \/ /\ Mounted(i) /\ hook[i].phase = "idle"
       /\ hook[i].update # NoUpdate \/ hook[i].adapterUpdate # NoUpdate
       /\ hook'[i].update = NoUpdate /\ hook'[i].adapterUpdate = NoUpdate
       /\ hook'[i].status = "mounted"

\* C35: quiescence. The chain render -> sync effect -> adapter state updates
\* -> re-render that a mount or a setValue starts is finite: every render and
\* every effect run strictly lowers the bounded count of the steps that one
\* instance has ahead and raises that of no instance, the second effect run
\* finds every adapter state equal to the runtime value and schedules
\* nothing, and as long as some count is not zero some mounted instance has
\* effects to run or an update to render, so that a render or an effect run
\* can be taken; when every count is zero nothing is pending.
C35_Quiescence ==
  [][/\ InternalStep =>
          /\ \A i \in Ids : StepsAhead(i)' <= StepsAhead(i)
          /\ \E i \in Ids : StepsAhead(i)' < StepsAhead(i)
     /\ \A i \in Ids :
          /\ StepsAhead(i)' <= 7
          /\ (EffectsStep(i) /\ hook[i].adapterUpdate = NoUpdate
                 /\ hook[i].queryState = hook[i].state
                 /\ hook[i].sessionStorageState = hook[i].state
                 /\ hook[i].localStorageState = hook[i].state) =>
                hook'[i].adapterUpdate = NoUpdate
     /\ (\A i \in Ids : StepsAhead(i)' = 0) <=> Quiescent'
     /\ ~Quiescent' =>
          \E i \in Ids :
            /\ (Mounted(i))'
            /\ \/ hook'[i].phase = "effects"
               \/ hook'[i].phase = "idle" /\ hook'[i].adapterUpdate # NoUpdate
               \/ hook'[i].phase = "idle" /\ hook'[i].update # NoUpdate /\ ~Busy']_vars

\* a setValue(1) on a hook with value 2 has run its whole chain: the update
\* was rendered, the effects wrote the stores and queued the adapter update,
\* that was rendered, and the effects after it scheduled nothing
C35_Witness ==
  /\ last.op = "set" /\ last.prev = Num(2) /\ last.arg = Num(1)
  /\ Mounted(last.id) /\ Quiescent
  /\ \A i \in Ids : StepsAhead(i) = 0
  /\ hook[last.id].state = Num(1)
  /\ hook[last.id].queryState = Num(1)
  /\ hook[last.id].sessionStorageState = Num(1)
  /\ hook[last.id].options.localStorageKey = Undefined

\* C36: store agreement. While no two mounted activations share a key, in
\* every quiescent state each store that a mounted activation configures
\* holds, under the activation's current key, serialize(runtime value): after
\* hydration, after accepted and rejected setValue calls, and after a
\* re-render that changes the keys, with or without a setValue after it.
C36_StoreAgreement ==
  \A i \in Ids :
    (Mounted(i) /\ Quiescent) =>
      ConfiguredStoresHold(hook[i].options,
                           serializeValue(hook[i].options, hook[i].state))

\* a hook with a session key only was set to 1 and then re-rendered with the
\* query key "page" and the local storage key "k"; no setValue followed and
\* everything has settled: the parameter and the local entry hold "1"
C36_Witness ==
  /\ last.op = "rerender" /\ last.error = NoError /\ last.prev = Str(NullKey)
  /\ Mounted(last.id) /\ Quiescent
  /\ \A j \in Ids \ {last.id} : ~Mounted(j)
  /\ hook[last.id].options.queryKey = "page"
  /\ hook[last.id].options.localStorageKey = "k"
  /\ hook[last.id].state = Num(1)
  /\ "page" \in DOMAIN url /\ url["page"] = "1"
  /\ "k" \in DOMAIN localStorage /\ localStorage["k"] = "1"

\* C37: no cross-activation propagation. A step of one activation (a call of
\* its setValue, the render of its update, its effects) leaves every other
\* activation as it was, so an activation never takes a value that another
\* one wrote to a shared key after hydration. The runtime values of two
\* activations bound to one query key may differ; once everything has settled
\* the parameter holds the serialized value of one of them. The effects after
\* a re-render of an activation write its own runtime value to its stores,
\* over whatever the other activation wrote there.
C37_NoCrossPropagation ==
  [][/\ SetStep => \A j \in Ids \ {last'.id} : hook'[j] = hook[j]
     /\ \A i \in Ids :
          (ApplyStep(i) \/ EffectsStep(i)) =>
            \A j \in Ids \ {i} : hook'[j] = hook[j]
     /\ (last.op = "rerender" /\ last.error = NoError /\ EffectsStep(last.id)) =>
          ConfiguredStoresHold(hook[last.id].options,
            serializeValue(hook[last.id].options, hook[last.id].state))'
     /\ \A i, j \in Ids, k \in {o.queryKey : o \in app} \ {Undefined} :
          (/\ i # j /\ Quiescent'
           /\ (Mounted(i))' /\ (Mounted(j))'
           /\ hook'[i].options.queryKey = k /\ hook'[j].options.queryKey = k) =>
            /\ k \in DOMAIN url'
            /\ url'[k] \in {serializeValue(hook'[i].options, hook'[i].state),
                            serializeValue(hook'[j].options, hook'[j].state)}]_vars

\* two hooks are bound to "tab"; one was set to 2 and still holds 2, the other
\* one kept 1 and was re-rendered afterwards: its effects wrote "1" back over
\* the "2" of the first
C37_Witness ==
  /\ last.op = "rerender" /\ last.error = NoError
  /\ Quiescent
  /\ \A i \in Ids : Mounted(i) /\ hook[i].options.queryKey = "tab"
  /\ hook[last.id].state = Num(1)
  /\ \E j \in Ids \ {last.id} : hook[j].state = Num(2)
  /\ "tab" \in DOMAIN url /\ url["tab"] = "1"

\* this step is a fresh mount with the configuration of the instance that was
\* unmounted by the call before it, itself preceded by a valid setValue of
\* that instance
RemountStep ==
  /\ MountStep /\ last'.error = NoError
  /\ last.op = "unmount" /\ last.arg # Null
  /\ hook'[last'.id].options = last.options

\* the value survives a round trip through the codec of the options
RoundTrips(options, value) ==
  parseValue(options, serializeValue(options, value)) = value

\* C38 (as stated): continuity across activations. After a valid setValue(v),
\* the unmount of the instance and a fresh mount with the same configuration,
\* the resolved value is v when the configuration has a storage key (v makes
\* the round trip through the codec and is valid), and it is defaultValue
\* when the configuration has a query key only and no other instance consumes
\* that key, because the unmount removed the parameter.
C38_Continuity ==
  [][RemountStep =>
       LET options == last.options
           v == last.arg
           storage == {options.sessionStorageKey, options.localStorageKey} \ {Undefined}
       IN  /\ (storage # {} /\ RoundTrips(options, v) /\ isValid(options, v)) =>
                hook'[last'.id].state = v
           /\ (/\ storage = {} /\ options.queryKey # Undefined
               /\ \A j \in Ids : ~Consumer(j, options.queryKey)) =>
                hook'[last'.id].state = options.defaultValue]_vars

\* this step is a commit that removed one instance and mounted another one
\* bound to the same query key
HandOverStep == last' # last /\ last'.op = "handover" /\ last'.error = NoError

\* C39: hand-over within one commit. When the last consumer of query key k
\* is removed in the commit that mounts a new hook bound to k, the cleanups
\* run before the setups: after the commit the parameter k is in the URL with
\* the serialized value of the new instance, and the registry entry of k
\* holds exactly the new instance.
C39_HandOver ==
  [][\A k \in DOMAIN activeQueryKeyInstances :
       (/\ HandOverStep
        /\ hook'[last'.id].options.queryKey = k
        /\ \E j \in Ids : activeQueryKeyInstances[k] = {j} /\ ~(Mounted(j))') =>
         /\ k \in DOMAIN url'
         /\ url'[k] = serializeValue(hook'[last'.id].options, hook'[last'.id].state)
         /\ k \in DOMAIN activeQueryKeyInstances'
         /\ activeQueryKeyInstances'[k] = {last'.id}
         /\ hook'[last'.id].registered = k]_vars

\* the only hook bound to "tab", with value 2, session key and validValues,
\* was replaced in one commit by a query-only hook bound to "tab": the new
\* hook took 2 from the URL, the parameter is there with "2" and the registry
\* entry of "tab" holds the new instance alone
C39_Witness ==
  /\ last.op = "handover" /\ last.error = NoError
  /\ last.options.sessionStorageKey = "k"
  /\ Mounted(last.id)
  /\ hook[last.id].options.queryKey = "tab"
  /\ hook[last.id].options.sessionStorageKey = Undefined
  /\ hook[last.id].state = Num(2)
  /\ \A j \in Ids \ {last.id} : ~Mounted(j)
  /\ url = [k \in {"tab"} |-> "2"]
  /\ activeQueryKeyInstances = [k \in {"tab"} |-> {last.id}]

====
